---- MODULE Spec2Model ----
(***************************************************************************)
(* Entitlement validation and session handling of structured-pdf-parser.   *)
(*                                                                         *)
(* The repository holds three libraries that a process can load:           *)
(*   "ml_core"        src/core/src/...      (security::validator and       *)
(*                                           licensing::manager, hardened) *)
(*   "ml_core_legacy" src/core/...          (the earlier validator,        *)
(*                                           manager and extractor)        *)
(*   "codex_core"     src/protected_core/   (initialize_core and SESSION)  *)
(* Their objects share nothing but the system clock.  The variable `crate` *)
(* says which library the process has loaded; it never changes.            *)
(*                                                                         *)
(* Time is in whole seconds since the Unix epoch (chrono DateTime<Utc>     *)
(* without its sub-second part).  A handler reads the clock once: every    *)
(* Utc::now() of one call sees the same instant `now`.                     *)
(*                                                                         *)
(* Hashes (DefaultHasher, SHA-256) are modelled as collision-free: a       *)
(* digest is the record of the algorithm, of the keys of the hasher and of  *)
(* the values fed to it.                                                    *)
(***************************************************************************)
EXTENDS Integers, FiniteSets, Sequences, TLC

----------------------------------------------------------------------------
(* Program constants *)

BUILD_TIMESTAMP == 1734123456

HARDCODED_EXPIRATION_DAYS == 14

MAX_CLOCK_DRIFT_SECONDS == 86400

SECURITY_SALT == "ml_core_2024_secure"

\* Session::is_active: a session lives fewer than this many hours
SESSION_MAX_HOURS == 24

\* Session::is_active: access_count must stay below this
SESSION_MAX_ACCESS == 1000

\* FeatureAccess::check_access: more than this many attempts are refused
ACCESS_LOG_LIMIT == 1000

----------------------------------------------------------------------------
(* Bounds of the exploration *)

\* the clock is explored up to this many whole days after BUILD_TIMESTAMP
ClockHorizonDays == 15

----------------------------------------------------------------------------
(* chrono arithmetic *)

\* chrono::Duration::days(n), in seconds
Days(n) == n * 86400

\* n hours, in seconds (the unit of Duration::num_hours)
Hours(n) == n * 3600

\* integer division truncating toward zero, as Rust's i64 `/`
TruncDiv(a, b) == IF a >= 0 THEN a \div b ELSE -((-a) \div b)

\* Duration::num_days of a duration of d seconds
num_days(d) == TruncDiv(d, Days(1))

\* Duration::num_hours of a duration of d seconds
num_hours(d) == TruncDiv(d, Hours(1))

Abs(x) == IF x < 0 THEN -x ELSE x

----------------------------------------------------------------------------
(* Inputs: identities, features, clock values, signatures *)

IDs == {"cust-1", "cust-2"}

OtherID(id) == IF id = "cust-1" THEN "cust-2" ELSE "cust-1"

Features == {"extract", "export"}

\* Vec<String> feature lists carried by records
FeatureLists == {<<"extract">>, <<"extract", "export">>}

\* The instants the system clock takes: around the anchor, a day after it,
\* around the last full day, around the end of the 14 days, and after.
ClockOffsets ==
    {-1, 0, Days(1), Days(13), Days(13) + 1,
     Days(13) + Hours(23), Days(14) - 1, Days(14), Days(14) + Hours(1)}
    \cup {Days(d) : d \in 15..ClockHorizonDays}

Instants == {BUILD_TIMESTAMP + o : o \in ClockOffsets}

\* expires_at / expiration values a record file may carry: the honest one
\* and one far in the future
ExpiryChoices == {BUILD_TIMESTAMP + Days(14), BUILD_TIMESTAMP + Days(365)}

\* the calls of a signature function that are told apart: each makes a
\* hasher of its own
HasherCalls == {1, 2}

\* A hasher keyed anew wherever it is made, as RandomState::new() keys the
\* hashers of a HashMap.  C21 must not hold of it.
DefaultHasher_new_keyed_per_call(call) == [k0 |-> call, k1 |-> call]

\* `let mut hasher = DefaultHasher::new()` in call `call`: a SipHash state
\* with both keys 0, whichever call, thread or process makes it
DefaultHasher_new(call) == [k0 |-> 0, k1 |-> 0]

\* ValidationConfig::generate_security_signature as call `call` runs it: a
\* new DefaultHasher fed customer_id, build_date.timestamp(), SECURITY_SALT,
\* and its finish() in hex
generate_security_signature_in(call, customer_id, build_ts) ==
    [alg |-> "DefaultHasher", keys |-> DefaultHasher_new(call),
     customer_id |-> customer_id, timestamp |-> build_ts,
     salt |-> SECURITY_SALT]

\* ValidationConfig::generate_security_signature (the tag of one call)
generate_security_signature(customer_id, build_ts) ==
    generate_security_signature_in(1, customer_id, build_ts)

\* a tag cut short (a string that is a proper prefix of the hex digest)
Truncated(tag) == [alg |-> "truncated", of |-> tag]

\* signature strings a ValidationConfig / License file may carry for `id`:
\* the right one, another identity's, one bound to another anchor, a cut one
SignatureChoices(id) ==
    {generate_security_signature(id, BUILD_TIMESTAMP),
     generate_security_signature(OtherID(id), BUILD_TIMESTAMP),
     generate_security_signature(id, BUILD_TIMESTAMP + 1),
     Truncated(generate_security_signature(id, BUILD_TIMESTAMP))}

----------------------------------------------------------------------------
(* security::validator::ValidationConfig  (src/core/src/security)          *)

\* The ValidationConfig values a file may deserialize to: every rightly signed
\* one, and for each identity one record under each wrong signature.
ValidationConfigs ==
    {[customer_id |-> id, features |-> fl, expires_at |-> e,
      build_signature |-> generate_security_signature(id, BUILD_TIMESTAMP)] :
        id \in IDs, fl \in FeatureLists, e \in ExpiryChoices}
    \cup
    {[customer_id |-> x[1], features |-> <<"extract">>,
      expires_at |-> BUILD_TIMESTAMP + Days(14), build_signature |-> x[2]] :
        x \in {y \in IDs \X UNION {SignatureChoices(i) : i \in IDs} :
                  y[2] \in SignatureChoices(y[1])}}

\* ValidationConfig::new
ValidationConfig_new(customer_id, features) ==
    [customer_id |-> customer_id, features |-> features,
     expires_at |-> BUILD_TIMESTAMP + Days(HARDCODED_EXPIRATION_DAYS),
     build_signature |->
        generate_security_signature(customer_id, BUILD_TIMESTAMP)]

\* Layer 1: Utc::now() < build_date + 14 days
check_hardcoded_expiration(t) ==
    t < BUILD_TIMESTAMP + Days(HARDCODED_EXPIRATION_DAYS)

\* A faulty anchor check that takes every clock reading.  C13 must not hold
\* of it.
validate_build_timestamp_any_clock(t) == TRUE

\* Layer 2: build_date <= Utc::now()
validate_build_timestamp(t) == BUILD_TIMESTAMP <= t

\* SystemTime::now().duration_since(UNIX_EPOCH) when the clock shows t: Err
\* when the clock is before the epoch
duration_since_UNIX_EPOCH(t) ==
    IF t >= 0 THEN [ok |-> TRUE, secs |-> t] ELSE [ok |-> FALSE]

\* Result<Duration, _>::unwrap_or_default().as_secs(): 0 for an Err
unwrap_or_default(r) == IF r.ok THEN r.secs ELSE 0

\* Layer 3: |SystemTime::now() - Utc::now()| < MAX_CLOCK_DRIFT_SECONDS.
\* Both readings come from the system clock.
detect_clock_manipulation(system_time, current_time) ==
    Abs(system_time - current_time) < MAX_CLOCK_DRIFT_SECONDS

\* A faulty signature check that does not bind the identity: the tag of any
\* identity for the compiled-in anchor is taken.  C9 must not hold of it.
validate_security_signature_any_identity(config) ==
    \E id \in IDs :
        config.build_signature =
            generate_security_signature(id, BUILD_TIMESTAMP)

\* Layer 4: build_signature equals the tag recomputed from customer_id and
\* the compiled-in BUILD_TIMESTAMP
validate_security_signature(config) ==
    config.build_signature =
        generate_security_signature(config.customer_id, BUILD_TIMESTAMP)

\* A faulty is_valid whose expiration layer trusts the record's own
\* expires_at.  C24 must not hold of it.
is_valid_own_expires_at(config, t) ==
    /\ t < config.expires_at
    /\ validate_build_timestamp(t)
    /\ detect_clock_manipulation(
           unwrap_or_default(duration_since_UNIX_EPOCH(t)), t)
    /\ validate_security_signature(config)

\* ValidationConfig::is_valid at clock reading t
is_valid(config, t) ==
    /\ check_hardcoded_expiration(t)
    /\ validate_build_timestamp(t)
    /\ detect_clock_manipulation(
           unwrap_or_default(duration_since_UNIX_EPOCH(t)), t)
    /\ validate_security_signature(config)

\* ValidationConfig::has_feature (also License::has_feature)
has_feature(features, feature) ==
    \E i \in DOMAIN features : features[i] = feature

\* ValidationConfig::validate_config: always true
validate_config(config) == TRUE

\* ValidationConfig::get_hardcoded_expiration
get_hardcoded_expiration == BUILD_TIMESTAMP + Days(HARDCODED_EXPIRATION_DAYS)

\* A faulty days_remaining that counts a begun day as a day (rounds up).
\* C26 must not hold of it.
days_remaining_rounded_up(t) ==
    IF t < get_hardcoded_expiration
    THEN num_days(get_hardcoded_expiration - t + Days(1) - 1)
    ELSE 0

\* ValidationConfig::days_remaining at clock reading t
days_remaining(t) ==
    IF t < get_hardcoded_expiration
    THEN num_days(get_hardcoded_expiration - t)
    ELSE 0

----------------------------------------------------------------------------
(* Option<T> *)

None == [some |-> FALSE]

Some(v) == [some |-> TRUE, val |-> v]

----------------------------------------------------------------------------
(* HashMap<String, V> as a set of entries [key, val]                       *)

\* HashMap::get
MapHas(map, k) == \E e \in map : e.key = k

MapGet(map, k) == (CHOOSE e \in map : e.key = k).val

\* HashMap::insert: the entry under k, if any, is replaced
MapInsert(map, k, v) ==
    {e \in map : e.key # k} \cup {[key |-> k, val |-> v]}

----------------------------------------------------------------------------
(* security::validator::Session and ConfigManager                          *)

\* Session::new at clock reading t
Session_new(config, t) ==
    [config |-> config, session_start |-> t, access_count |-> 0]

\* A faulty liveness check that lets a session live through its 24th hour
\* (<= where the code has <).  C7 must not hold of it.
is_active_through_24h(session, t) ==
    /\ is_valid(session.config, t)
    /\ num_hours(t - session.session_start) <= SESSION_MAX_HOURS
    /\ session.access_count < SESSION_MAX_ACCESS

\* Session::is_active at clock reading t
is_active(session, t) ==
    /\ is_valid(session.config, t)
    /\ num_hours(t - session.session_start) < SESSION_MAX_HOURS
    /\ session.access_count < SESSION_MAX_ACCESS

\* Session::validate_access: feature membership only, no counting
validate_access(session, feature) ==
    has_feature(session.config.features, feature)

\* ConfigManager::new
ConfigManager_new == [sessions |-> {}, security_level |-> "Maximum"]

\* ConfigManager::validate_environment: always true
validate_environment == TRUE

\* ConfigManager::validate_configuration at clock reading t
validate_configuration(mgr, config, t) ==
    CASE mgr.security_level = "Basic" -> is_valid(config, t)
      [] mgr.security_level = "Enhanced" ->
            /\ is_valid(config, t)
            /\ validate_config(config)
            /\ days_remaining(t) > 0
      [] mgr.security_level = "Maximum" ->
            /\ is_valid(config, t)
            /\ validate_config(config)
            /\ days_remaining(t) > 0
            /\ validate_environment

\* A faulty feature check that asks for membership only and not for a live
\* session.  C5 must not hold of it.
validate_feature_membership_only(mgr, customer_id, feature, t) ==
    IF MapHas(mgr.sessions, customer_id)
    THEN validate_access(MapGet(mgr.sessions, customer_id), feature)
    ELSE FALSE

\* ConfigManager::validate_feature at clock reading t
validate_feature(mgr, customer_id, feature, t) ==
    IF MapHas(mgr.sessions, customer_id)
    THEN /\ is_active(MapGet(mgr.sessions, customer_id), t)
         /\ validate_access(MapGet(mgr.sessions, customer_id), feature)
    ELSE FALSE

\* the fields of struct ValidationConfig
ValidationConfigFields ==
    {"customer_id", "features", "expires_at", "config_hash",
     "build_signature"}

\* the value of a member the text of a file lacks
Absent == [alg |-> "absent"]

\* files load_config may be pointed at: no file, a file that is not a
\* ValidationConfig, a file that deserializes to a ValidationConfig
\* A JSON object is given by `members`, the names of the members its text has,
\* and by the values of those the struct names; a value the text lacks is
\* Absent.
ConfigFiles ==
    {[kind |-> "missing"], [kind |-> "unparsable"]}
    \cup {[kind |-> "config", config |-> c,
           members |-> ValidationConfigFields] : c \in ValidationConfigs}
    \cup {[kind |-> "config",
           config |-> ValidationConfig_new("cust-1", <<"extract">>),
           members |-> ValidationConfigFields \cup {"comment"}],
          [kind |-> "config",
           config |-> [ValidationConfig_new("cust-1", <<"extract">>)
                          EXCEPT !.build_signature = Absent],
           members |-> ValidationConfigFields \ {"build_signature"}]}

\* serde_json::from_str into a struct with the `required` fields: the text
\* must be an object with a member for each; other members are skipped
from_str_ok(file, required) ==
    /\ file.kind \in {"config", "license"}
    /\ required \subseteq file.members

\* A faulty store that keeps the session an identity already has
\* (entry().or_insert instead of insert).  C8 must not hold of it.
load_config_store_if_absent(mgr, config, t) ==
    IF MapHas(mgr.sessions, config.customer_id)
    THEN mgr
    ELSE [mgr EXCEPT !.sessions =
            MapInsert(mgr.sessions, config.customer_id,
                      Session_new(config, t))]

\* the session ConfigManager::load_config stores for an accepted config:
\* Session::new(config), under session.get_customer_id()
load_config_store(mgr, config, t) ==
    [mgr EXCEPT !.sessions =
        MapInsert(mgr.sessions, config.customer_id, Session_new(config, t))]

\* whether ConfigManager::load_config(file) returns Ok at clock reading t
load_config_ok(mgr, file, t) ==
    /\ from_str_ok(file, ValidationConfigFields)
    /\ validate_configuration(mgr, file.config, t)

----------------------------------------------------------------------------
(* licensing::manager  (src/core/src/licensing): License, LicenseManager,   *)
(* FeatureAccess.  license_id (a fresh UUID) and metadata are read by no    *)
(* check and are left out of the record.                                   *)

\* the SECURITY_SALT local to License::generate_security_signature
LICENSE_SECURITY_SALT == "ml_core_2024_secure"

\* License::generate_security_signature as call `call` runs it: a new
\* DefaultHasher fed customer_id, build_date.timestamp(), SECURITY_SALT, and
\* its finish() in hex
License_generate_security_signature_in(call, customer_id, build_ts) ==
    [alg |-> "DefaultHasher", keys |-> DefaultHasher_new(call),
     customer_id |-> customer_id, timestamp |-> build_ts,
     salt |-> LICENSE_SECURITY_SALT]

\* License::generate_security_signature (the tag of one call)
License_generate_security_signature(customer_id, build_ts) ==
    License_generate_security_signature_in(1, customer_id, build_ts)

\* License::new
License_new(customer_id, features) ==
    [customer_id |-> customer_id, features |-> features,
     issued_at |-> BUILD_TIMESTAMP,
     expires_at |-> BUILD_TIMESTAMP + Days(HARDCODED_EXPIRATION_DAYS),
     security_signature |->
        License_generate_security_signature(customer_id, BUILD_TIMESTAMP)]

\* License::is_valid: a fresh ValidationConfig::new(customer_id, features)
\* is validated, not the license's own fields
License_is_valid(license, t) ==
    is_valid(ValidationConfig_new(license.customer_id, license.features), t)

\* License::days_remaining
License_days_remaining(license, t) == days_remaining(t)

\* License::validate_signature
License_validate_signature(license) ==
    license.security_signature =
        License_generate_security_signature(license.customer_id,
                                            BUILD_TIMESTAMP)

\* LicenseManager::new
LicenseManager_new == [licenses |-> {}, security_manager |-> ConfigManager_new]

\* LicenseManager::validate_license at clock reading t
validate_license(mgr, license, t) ==
    /\ License_is_valid(license, t)
    /\ License_validate_signature(license)
    /\ validate_feature(mgr.security_manager, license.customer_id,
                        "license_validation", t)
    /\ License_days_remaining(license, t) > 0

\* the License values a file may deserialize to
Licenses ==
    {[customer_id |-> id, features |-> <<"extract">>,
      issued_at |-> BUILD_TIMESTAMP, expires_at |-> e,
      security_signature |-> s] :
        id \in IDs, e \in ExpiryChoices,
        s \in {generate_security_signature("cust-1", BUILD_TIMESTAMP),
               generate_security_signature("cust-2", BUILD_TIMESTAMP)}}

LicenseFiles ==
    {[kind |-> "missing"], [kind |-> "unparsable"]}
    \cup {[kind |-> "license", license |-> l] : l \in Licenses}

\* whether LicenseManager::load_license(file) returns Ok at clock reading t
load_license_ok(mgr, file, t) ==
    /\ file.kind = "license"
    /\ validate_license(mgr, file.license, t)

\* what LicenseManager::load_license stores for an accepted license
load_license_store(mgr, license) ==
    [mgr EXCEPT !.licenses =
        MapInsert(mgr.licenses, license.customer_id, license)]

\* LicenseManager::generate_license
generate_license(customer_id, features) == License_new(customer_id, features)

\* how std::fs::write(output_path, text) may end: the text is written; the
\* file cannot be created or opened (no such directory, no permission); or
\* the file is opened, which empties it, and the write fails part way (disk
\* full, I/O error)
WriteOutcomes == {"written", "not_opened", "cut_short"}

\* whether std::fs::write returns Ok
fs_write_ok(outcome) == outcome = "written"

\* the file at the path after std::fs::write(path, text), `file` being what
\* was there: a file cut short holds nothing or the beginning of the text,
\* which is no JSON value
fs_write(outcome, file, text) ==
    CASE outcome = "written" -> text
      [] outcome = "not_opened" -> file
      [] outcome = "cut_short" -> [kind |-> "unparsable"]

\* whether LicenseManager::save_license(license, output_path) returns Ok at
\* clock reading t: the license passes validate_license and the write
\* succeeds
save_license_ok(mgr, license, t, outcome) ==
    /\ validate_license(mgr, license, t)
    /\ fs_write_ok(outcome)

\* serde_json::to_string_pretty(license): the text of a JSON object that
\* deserializes to the license
to_string_pretty(license) == [kind |-> "license", license |-> license]

\* the files save_license may write
SavedFiles ==
    {to_string_pretty(generate_license(id, fl)) :
        id \in IDs, fl \in FeatureLists}

\* LicenseManager::validate_license_access at clock reading t
validate_license_access(mgr, customer_id, feature, t) ==
    IF MapHas(mgr.licenses, customer_id)
    THEN /\ License_is_valid(MapGet(mgr.licenses, customer_id), t)
         /\ has_feature(MapGet(mgr.licenses, customer_id).features, feature)
         /\ validate_feature(mgr.security_manager, customer_id, feature, t)
    ELSE FALSE

\* FeatureAccess::new
FeatureAccess_new == [manager |-> LicenseManager_new, access_log |-> {}]

\* self.access_log.get(customer_id).unwrap_or(&0)
access_log_get(access_log, customer_id) ==
    IF MapHas(access_log, customer_id)
    THEN MapGet(access_log, customer_id)
    ELSE 0

\* A faulty check_access that stops at the access limit and does not ask
\* the license manager.  C17 must not hold of it.
check_access_limit_only(fa, customer_id, feature, t) ==
    access_log_get(fa.access_log, customer_id) + 1 <= ACCESS_LOG_LIMIT

\* FeatureAccess::check_access(&self, ...): the value it returns
check_access(fa, customer_id, feature, t) ==
    LET access_count == access_log_get(fa.access_log, customer_id) + 1
    IN  IF access_count > ACCESS_LOG_LIMIT
        THEN FALSE
        ELSE validate_license_access(fa.manager, customer_id, feature, t)

\* LicenseManager::get_license_info
get_license_info(mgr, customer_id) ==
    IF MapHas(mgr.licenses, customer_id)
    THEN Some(MapGet(mgr.licenses, customer_id))
    ELSE None

\* FeatureAccess::get_available_features at clock reading t
get_available_features(fa, customer_id, t) ==
    LET license == get_license_info(fa.manager, customer_id)
    IN  IF license.some
        THEN IF License_is_valid(license.val, t)
             THEN license.val.features
             ELSE <<>>
        ELSE <<>>

\* FeatureAccess::check_access(&self, ...): the access_log it leaves.  The
\* incremented count is a local; nothing is written back.
check_access_log(fa, customer_id) == fa.access_log

----------------------------------------------------------------------------
(* The earlier licensing::manager  (src/core/licensing/manager.rs)         *)

\* the License values a file may deserialize to (no signature field)
LegacyLicenses ==
    {[customer_id |-> id, features |-> fl, issued_at |-> BUILD_TIMESTAMP,
      expires_at |-> e] :
        id \in IDs, fl \in FeatureLists, e \in ExpiryChoices}

LegacyLicenseFiles ==
    {[kind |-> "missing"], [kind |-> "unparsable"]}
    \cup {[kind |-> "license", license |-> l] : l \in LegacyLicenses}

\* License::is_valid: the record's own expires_at decides
legacy_is_valid(license, t) == t < license.expires_at

\* LicenseManager::new
LegacyLicenseManager_new == [licenses |-> {}]

\* whether LicenseManager::load_license(file) returns Ok at clock reading t
legacy_load_license_ok(file, t) ==
    /\ file.kind = "license"
    /\ legacy_is_valid(file.license, t)

\* what LicenseManager::load_license stores for an accepted license
legacy_load_license_store(mgr, license) ==
    [mgr EXCEPT !.licenses =
        MapInsert(mgr.licenses, license.customer_id, license)]

\* LicenseManager::validate_license at clock reading t
legacy_validate_license(mgr, customer_id, feature, t) ==
    IF MapHas(mgr.licenses, customer_id)
    THEN /\ legacy_is_valid(MapGet(mgr.licenses, customer_id), t)
         /\ has_feature(MapGet(mgr.licenses, customer_id).features, feature)
    ELSE FALSE

\* the terms, in days, a license is generated for
LicenseDays == {14}

\* License::new(customer_id, features, days) at clock reading t
legacy_License_new(customer_id, features, days, t) ==
    [customer_id |-> customer_id, features |-> features, issued_at |-> t,
     expires_at |-> t + Days(days)]

\* LicenseManager::generate_license at clock reading t
legacy_generate_license(customer_id, features, days, t) ==
    legacy_License_new(customer_id, features, days, t)

\* the clock readings at which generate_license made the licenses that are
\* saved (a license may be held and saved at any later reading)
GenerationInstants == {BUILD_TIMESTAMP, BUILD_TIMESTAMP + Days(14)}

\* the License values save_license is handed: one generate_license made for
\* "cust-1", or one that had expired before the anchor
LegacySavedLicenses ==
    {legacy_generate_license("cust-1", <<"extract">>, d, t) :
        d \in LicenseDays, t \in GenerationInstants}
    \cup {[customer_id |-> "cust-1", features |-> <<"extract">>,
           issued_at |-> BUILD_TIMESTAMP - Days(15),
           expires_at |-> BUILD_TIMESTAMP - Days(1)]}

\* the files save_license may write
LegacySavedFiles == {to_string_pretty(l) : l \in LegacySavedLicenses}

----------------------------------------------------------------------------
(* The earlier security::validator  (src/core/security/validator.rs)       *)

\* the fields of struct ValidationConfig (no build_signature)
LegacyValidationConfigFields ==
    {"customer_id", "features", "expires_at", "config_hash"}

\* the ValidationConfig values a file may deserialize to
LegacyValidationConfigs ==
    {[customer_id |-> "cust-1", features |-> <<"extract">>,
      expires_at |-> BUILD_TIMESTAMP + Days(365)]}

\* files load_config may be pointed at; the last is a file written for the
\* hardened ValidationConfig, whose build_signature no field names
LegacyConfigFiles ==
    {[kind |-> "missing"], [kind |-> "unparsable"]}
    \cup {[kind |-> "config", config |-> c,
           members |-> LegacyValidationConfigFields] :
            c \in LegacyValidationConfigs}
    \cup {[kind |-> "config",
           config |-> [customer_id |-> "cust-1", features |-> <<"extract">>,
                       expires_at |-> BUILD_TIMESTAMP + Days(14)],
           members |-> LegacyValidationConfigFields \cup {"build_signature"}]}

\* ValidationConfig::is_valid: the record's own expires_at decides
legacy_config_is_valid(config, t) == t < config.expires_at

\* Session::new(config); engine_state is an empty map
LegacySession_new(config) == [config |-> config, engine_state |-> {}]

\* Session::is_active
legacy_is_active(session, t) == legacy_config_is_valid(session.config, t)

\* ConfigManager::new
LegacyConfigManager_new == [sessions |-> {}]

\* whether ConfigManager::load_config(file) returns Ok at clock reading t
legacy_load_config_ok(file, t) ==
    /\ from_str_ok(file, LegacyValidationConfigFields)
    /\ legacy_config_is_valid(file.config, t)

\* what ConfigManager::load_config stores for an accepted config
legacy_load_config_store(mgr, config) ==
    [mgr EXCEPT !.sessions =
        MapInsert(mgr.sessions, config.customer_id,
                  LegacySession_new(config))]

\* ConfigManager::validate_feature at clock reading t
legacy_validate_feature(mgr, customer_id, feature, t) ==
    IF MapHas(mgr.sessions, customer_id)
    THEN /\ legacy_is_active(MapGet(mgr.sessions, customer_id), t)
         /\ validate_access(MapGet(mgr.sessions, customer_id), feature)
    ELSE FALSE

----------------------------------------------------------------------------
(* protected_core  (src/protected_core/src/lib.rs)                         *)

\* hex::encode(Sha256::digest(data)) of the bytes of the string `data`;
\* Sha256::update called part by part hashes the concatenation of the parts
sha256(data) == [alg |-> "sha256", data |-> data]

\* a number in two decimal digits
Pad2(n) == IF n < 10 THEN "0" \o ToString(n) ELSE ToString(n)

\* the civil date <<year, month, day>> of the day `z` days after 1970-01-01
civil_from_days(z) ==
    LET doe == (z + 719468) % 146097
        era == (z + 719468) \div 146097
        yoe == (doe - (doe \div 1460) + (doe \div 36524)
                    - (doe \div 146096)) \div 365
        doy == doe - (365 * yoe + (yoe \div 4) - (yoe \div 100))
        mp == (5 * doy + 2) \div 153
        d == doy - ((153 * mp + 2) \div 5) + 1
        m == IF mp < 10 THEN mp + 3 ELSE mp - 9
        y == yoe + era * 400 + (IF m <= 2 THEN 1 ELSE 0)
    IN  <<y, m, d>>

\* DateTime<Utc>::to_rfc3339 of an instant of whole seconds:
\* "YYYY-MM-DDTHH:MM:SS+00:00"
to_rfc3339(t) ==
    LET date == civil_from_days(t \div 86400)
        secs == t % 86400
    IN  ToString(date[1]) \o "-" \o Pad2(date[2]) \o "-" \o Pad2(date[3])
        \o "T" \o Pad2(secs \div 3600) \o ":" \o Pad2((secs % 3600) \div 60)
        \o ":" \o Pad2(secs % 60) \o "+00:00"

\* the tag verify_license_signature recomputes:
\* sha256 of "{customer_id}:{expiration.to_rfc3339()}:{wheel_hash}"
license_signature_data(customer_id, expiration, wheel_hash) ==
    sha256(customer_id \o ":" \o to_rfc3339(expiration) \o ":" \o wheel_hash)

\* verify_license_signature
verify_license_signature(license) ==
    license.signature =
        license_signature_data(license.customer_id, license.expiration,
                               license.wheel_hash)

\* derive_session_key: sha256 of customer_id followed by a fixed string
derive_session_key(customer_id) ==
    sha256(customer_id \o "codex_session_key_2024")

\* generate_watermark: "wm_" and the first 8 bytes of a sha256, in hex
generate_watermark(customer_id) ==
    [prefix |-> "wm_", hex8 |-> sha256(customer_id \o "watermark_salt")]

\* A String is a sequence of characters, so that str::contains can be
\* computed.  The ExtractionRules the embedded payload holds:
PayloadRules ==
    [module_patterns |-> << <<"M", "o", "d">>, <<"C", "h">> >>,
     step_patterns |-> << <<"S", "t">> >>,
     flow_patterns |-> <<>>,
     taxonomy_patterns |-> <<>>,
     llm_prompts |-> [summary |-> "Summarize the document"],
     confidence_thresholds |-> [module |-> 95]]

\* the rule sets a payload may hold
RuleSets ==
    {PayloadRules,
     [module_patterns |-> << <<"C", "h">> >>,
      step_patterns |-> <<>>,
      flow_patterns |-> <<>>,
      taxonomy_patterns |-> <<>>,
      llm_prompts |-> [summary |-> "Summarize", outline |-> "Outline"],
      confidence_thresholds |-> [module |-> 90]]}

\* the fields of struct ExtractionRules; serde requires a member for each
ExtractionRulesFields ==
    {"module_patterns", "step_patterns", "flow_patterns",
     "taxonomy_patterns", "llm_prompts", "confidence_thresholds"}

\* serde_json::to_vec(rules): the text of a JSON object with one member per
\* field
to_json(rules) == [json |-> "object", members |-> rules]

\* the plaintexts a payload may be sealed from: a rule set, a rule set with a
\* member no field names, a rule set lacking members, and no JSON at all
Plaintexts ==
    {to_json(r) : r \in RuleSets}
    \cup {[json |-> "object",
           members |-> [module_patterns |-> PayloadRules.module_patterns,
                        step_patterns |-> PayloadRules.step_patterns,
                        flow_patterns |-> PayloadRules.flow_patterns,
                        taxonomy_patterns |-> PayloadRules.taxonomy_patterns,
                        llm_prompts |-> PayloadRules.llm_prompts,
                        confidence_thresholds |->
                            PayloadRules.confidence_thresholds,
                        comment |-> "x"]],
          [json |-> "object",
           members |-> [module_patterns |-> PayloadRules.module_patterns,
                        step_patterns |-> PayloadRules.step_patterns,
                        llm_prompts |-> PayloadRules.llm_prompts]],
          [json |-> "object",
           members |-> [module_patterns |-> PayloadRules.module_patterns]],
          [json |-> "invalid"]}

\* serde_json::from_slice::<ExtractionRules>: the text must be a JSON object
\* with every field; members no field names are dropped
from_json(plaintext) ==
    IF /\ plaintext.json = "object"
       /\ ExtractionRulesFields \subseteq DOMAIN plaintext.members
    THEN [ok |-> TRUE,
          rules |-> [f \in ExtractionRulesFields |-> plaintext.members[f]]]
    ELSE [ok |-> FALSE, err |-> "ValueError"]

\* A blob is a sequence of bytes.  A byte is told by what wrote it and by its
\* place in what was written: a nonce, the output of a sealing, or the hand
\* of a party that altered the blob.
NonceByte(name, i) == [of |-> [nonce |-> name], i |-> i]
SealedByte(seal, i) == [of |-> seal, i |-> i]
AlteredByte == [of |-> [altered |-> TRUE], i |-> 0]

\* the 12 bytes of a nonce
NonceBytes(name) == [i \in 1..12 |-> NonceByte(name, i)]

\* Aes256Gcm encrypt(nonce, plaintext) under `key`: the ciphertext, as long
\* as the plaintext (taken to be one byte), followed by the 16 bytes of the
\* tag
Aes256Gcm_encrypt(key, nonce, plaintext) ==
    [i \in 1..(1 + 16) |->
        SealedByte([key |-> key, nonce |-> nonce, plaintext |-> plaintext],
                   i)]

\* Aes256Gcm decrypt(nonce, ciphertext) under `key`: the plaintext where the
\* bytes are, whole and in order, what encrypt gave under this key and this
\* nonce; an error for anything else, fewer bytes than a tag included
Aes256Gcm_decrypt(key, nonce, ciphertext) ==
    IF /\ Len(ciphertext) >= 16
       /\ DOMAIN ciphertext[1].of = {"key", "nonce", "plaintext"}
       /\ ciphertext[1].of.key = key
       /\ ciphertext[1].of.nonce = nonce
       /\ ciphertext = Aes256Gcm_encrypt(key, nonce,
                                         ciphertext[1].of.plaintext)
    THEN [ok |-> TRUE, plaintext |-> ciphertext[1].of.plaintext]
    ELSE [ok |-> FALSE]

\* the blob the build embeds: nonce (12 bytes) || ciphertext and tag
Encrypt(key, nonce, plaintext) ==
    nonce \o Aes256Gcm_encrypt(key, nonce, plaintext)

\* what a party without the key can do to a blob: replace a byte of the
\* nonce, of the ciphertext or of the tag, cut the blob short, or put bytes
\* in front of it
Alterations ==
    {"none", "nonce", "ciphertext", "tag", "cut_to_11", "cut_to_20",
     "cut_to_28", "shifted"}

Alter(blob, how) ==
    CASE how = "none" -> blob
      [] how = "nonce" -> [blob EXCEPT ![12] = AlteredByte]
      [] how = "ciphertext" -> [blob EXCEPT ![13] = AlteredByte]
      [] how = "tag" -> [blob EXCEPT ![Len(blob)] = AlteredByte]
      [] how = "cut_to_11" -> SubSeq(blob, 1, 11)
      [] how = "cut_to_20" -> SubSeq(blob, 1, 20)
      [] how = "cut_to_28" -> SubSeq(blob, 1, 28)
      [] how = "shifted" -> <<AlteredByte>> \o blob

\* the embedded asset: the rules sealed under the key of identity "cust-1"
ENCRYPTED_PAYLOAD ==
    Encrypt(derive_session_key("cust-1"), NonceBytes("nonce-0"),
            to_json(PayloadRules))

\* A faulty decrypt_payload that hands the cipher the whole slice as the
\* ciphertext (`&encrypted_data[..]` for `&encrypted_data[12..]`).  C14 must
\* not hold of it.
decrypt_payload_whole_slice(encrypted_data, key) ==
    IF Len(encrypted_data) < 12
    THEN [ok |-> FALSE, err |-> "Invalid encrypted data"]
    ELSE LET nonce == SubSeq(encrypted_data, 1, 12)
             ciphertext == encrypted_data
             plaintext == Aes256Gcm_decrypt(key, nonce, ciphertext)
         IN  IF plaintext.ok
             THEN from_json(plaintext.plaintext)
             ELSE [ok |-> FALSE, err |-> "Decryption failed"]

\* decrypt_payload: fewer than 12 bytes are refused; the first 12 bytes are
\* the nonce and the rest the ciphertext; what the cipher opens is parsed
\* as ExtractionRules.  Ok(rules) or Err
decrypt_payload(encrypted_data, key) ==
    IF Len(encrypted_data) < 12
    THEN [ok |-> FALSE, err |-> "Invalid encrypted data"]
    ELSE LET nonce == SubSeq(encrypted_data, 1, 12)
             ciphertext == SubSeq(encrypted_data, 13, Len(encrypted_data))
             plaintext == Aes256Gcm_decrypt(key, nonce, ciphertext)
         IN  IF plaintext.ok
             THEN from_json(plaintext.plaintext)
             ELSE [ok |-> FALSE, err |-> "Decryption failed"]

\* the License values a file may deserialize to
CoreLicenses ==
    UNION {
      {[customer_id |-> x[1], expiration |-> x[2], features |-> <<"extract">>,
        wheel_hash |-> "wheel-1", signature |-> s] :
          s \in {license_signature_data(x[1], x[2], "wheel-1"),
                 license_signature_data(OtherID(x[1]), x[2], "wheel-1")}} :
      x \in IDs \X ExpiryChoices}

\* the fields of struct License a file must have (hwid is an Option)
CoreLicenseFields ==
    {"customer_id", "expiration", "features", "wheel_hash", "signature"}

\* the rightly signed License of "cust-1" that expires with the anchor
CoreLicenseOfCust1 ==
    [customer_id |-> "cust-1", expiration |-> BUILD_TIMESTAMP + Days(14),
     features |-> <<"extract">>, wheel_hash |-> "wheel-1",
     signature |->
        license_signature_data("cust-1", BUILD_TIMESTAMP + Days(14),
                               "wheel-1")]

CoreLicenseFiles ==
    {[kind |-> "missing"], [kind |-> "unparsable"]}
    \cup {[kind |-> "license", license |-> l,
           members |-> CoreLicenseFields] : l \in CoreLicenses}
    \cup {[kind |-> "license", license |-> CoreLicenseOfCust1,
           members |-> CoreLicenseFields \cup {"comment"}],
          [kind |-> "license",
           license |-> [CoreLicenseOfCust1 EXCEPT !.signature = Absent],
           members |-> CoreLicenseFields \ {"signature"}]}

\* String::new() where a watermark is held
EmptyWatermark == [prefix |-> "", hex8 |-> None]

\* Session::new: no rules, empty customer_id and watermark
CoreSession_new ==
    [rules |-> None, customer_id |-> "", watermark |-> EmptyWatermark]

\* the error initialize_core(file) returns at clock reading t, "" for Ok(true)
initialize_core_error(file, t) ==
    CASE file.kind = "missing" -> "FileNotFoundError"
      [] file.kind = "unparsable" -> "ValueError"
      [] ~from_str_ok(file, CoreLicenseFields) -> "ValueError"
      [] OTHER ->
            IF t > file.license.expiration THEN "License expired"
            ELSE IF ~verify_license_signature(file.license)
                 THEN "Invalid license signature"
            ELSE IF ~decrypt_payload(ENCRYPTED_PAYLOAD,
                        derive_session_key(file.license.customer_id)).ok
                 THEN "Decryption failed"
            ELSE ""

\* SESSION as initialize_core(file) leaves it: it is first overwritten with
\* Some(Session::new()), and filled only when every check has passed
initialize_core_session(session, file, t) ==
    IF initialize_core_error(file, t) = ""
    THEN Some([rules |-> Some(decrypt_payload(ENCRYPTED_PAYLOAD,
                        derive_session_key(file.license.customer_id)).rules),
               customer_id |-> file.license.customer_id,
               watermark |-> generate_watermark(file.license.customer_id)])
    ELSE Some(CoreSession_new)

\* str::contains(pattern): pattern occurs in text as a run of characters
contains(text, pattern) ==
    \E i \in 0..(Len(text) - Len(pattern)) :
        SubSeq(text, i + 1, i + Len(pattern)) = pattern

\* A faulty extraction that returns the results last pattern first.  C27
\* must not hold of it.
matches_last_first(text, patterns, confidence) ==
    LET Hit(p) == contains(text, p)
        hits == SelectSeq(patterns, Hit)
    IN  [i \in 1..Len(hits) |->
            [pattern |-> hits[Len(hits) + 1 - i], confidence |-> confidence]]

\* one extraction result per pattern the text contains, in the order of the
\* pattern list; confidence in hundredths (0.95 is 95)
matches(text, patterns, confidence) ==
    LET Hit(p) == contains(text, p)
        hits == SelectSeq(patterns, Hit)
    IN  [i \in 1..Len(hits) |->
            [pattern |-> hits[i], confidence |-> confidence]]

apply_module_extraction(text, rules) ==
    matches(text, rules.module_patterns, 95)

apply_step_extraction(text, rules) ==
    matches(text, rules.step_patterns, 90)

\* add_watermark returns the items as they are
add_watermark(items, watermark) == items

\* extract_modules(text) reading `session` (the value of SESSION)
extract_modules(session, text) ==
    IF ~session.some
    THEN [ok |-> FALSE, err |-> "Core not initialized"]
    ELSE IF ~session.val.rules.some
    THEN [ok |-> FALSE, err |-> "Rules not loaded"]
    ELSE [ok |-> TRUE,
          value |-> add_watermark(
                        apply_module_extraction(text, session.val.rules.val),
                        session.val.watermark)]

\* extract_steps(text) reading `session`
extract_steps(session, text) ==
    IF ~session.some
    THEN [ok |-> FALSE, err |-> "Core not initialized"]
    ELSE IF ~session.val.rules.some
    THEN [ok |-> FALSE, err |-> "Rules not loaded"]
    ELSE [ok |-> TRUE,
          value |-> add_watermark(
                        apply_step_extraction(text, session.val.rules.val),
                        session.val.watermark)]

\* get_llm_prompt(prompt_type) reading `session`
get_llm_prompt(session, prompt_type) ==
    IF ~session.some
    THEN [ok |-> FALSE, err |-> "Core not initialized"]
    ELSE IF ~session.val.rules.some
    THEN [ok |-> FALSE, err |-> "Rules not loaded"]
    ELSE IF prompt_type \in DOMAIN session.val.rules.val.llm_prompts
    THEN [ok |-> TRUE,
          value |-> session.val.rules.val.llm_prompts[prompt_type]]
    ELSE [ok |-> FALSE, err |-> "KeyError"]

\* the texts and prompt types a caller passes
Texts ==
    {<<>>, <<"C", "h", "M", "o", "d">>, <<"S", "t", "M", "o">>}

PromptTypes == {"summary", "unknown"}

----------------------------------------------------------------------------
(* engine::extractor  (src/core/engine): the functions the ml_core module  *)
(* registers                                                               *)

\* ExtractionEngine::new: three empty maps
ExtractionEngine_new == [patterns |-> {}, prompts |-> {}, thresholds |-> {}]

\* the fields of struct ExtractionEngine
ExtractionEngineFields == {"patterns", "prompts", "thresholds"}

\* the bytes load_config may be handed: the text of a JSON object with a
\* member per field (each a JSON object), one lacking a member, and bytes
\* that are no JSON
EngineConfigData ==
    {[json |-> "object",
      members |->
        [patterns |-> [module |-> << <<"M", "o", "d">>, <<"C", "h">> >>,
                       step |-> << <<"S", "t">> >>],
         prompts |-> [summary |-> "Summarize the document"],
         thresholds |-> [module |-> 95]]],
     [json |-> "object",
      members |->
        [patterns |-> [module |-> << <<"C", "h">>, <<"M", "o", "d">> >>],
         prompts |-> [summary |-> "Summarize", outline |-> "Outline"],
         thresholds |-> [module |-> 90, step |-> 90]]],
     [json |-> "object",
      members |->
        [patterns |-> [step |-> << <<"S", "t">> >>],
         prompts |-> [outline |-> "Outline"]]],
     [json |-> "invalid"]}

\* a JSON object read into a HashMap: an entry per member
to_HashMap(object) == {[key |-> k, val |-> object[k]] : k \in DOMAIN object}

\* serde_json::from_slice::<ExtractionEngine>: the bytes must be the text of
\* a JSON object with a member for every field
from_slice(config_data) ==
    IF /\ config_data.json = "object"
       /\ ExtractionEngineFields \subseteq DOMAIN config_data.members
    THEN [ok |-> TRUE,
          config |-> [f \in ExtractionEngineFields |->
                        to_HashMap(config_data.members[f])]]
    ELSE [ok |-> FALSE, err |-> "serde_json::Error"]

\* A faulty load_config that adds the parsed entries to the maps it has
\* (extend instead of assignment).  C28 must not hold of it.
ExtractionEngine_load_config_extending(self, config_data) ==
    LET config == from_slice(config_data)
    IN  IF ~config.ok
        THEN [ok |-> FALSE, self |-> self]
        ELSE [ok |-> TRUE,
              self |-> [f \in ExtractionEngineFields |->
                          {e \in self[f] :
                              ~MapHas(config.config[f], e.key)}
                          \cup config.config[f]]]

\* ExtractionEngine::load_config: the bytes are parsed first (`?` returns on
\* failure), then the three maps are assigned
ExtractionEngine_load_config(self, config_data) ==
    LET config == from_slice(config_data)
    IN  IF ~config.ok
        THEN [ok |-> FALSE, self |-> self]
        ELSE [ok |-> TRUE,
              self |-> [patterns |-> config.config.patterns,
                        prompts |-> config.config.prompts,
                        thresholds |-> config.config.thresholds]]

\* ExtractionEngine::extract_modules
ExtractionEngine_extract_modules(engine, text) ==
    IF MapHas(engine.patterns, "module")
    THEN matches(text, MapGet(engine.patterns, "module"), 95)
    ELSE <<>>

\* ExtractionEngine::extract_steps
ExtractionEngine_extract_steps(engine, text) ==
    IF MapHas(engine.patterns, "step")
    THEN matches(text, MapGet(engine.patterns, "step"), 90)
    ELSE <<>>

\* ExtractionEngine::get_prompt
ExtractionEngine_get_prompt(engine, prompt_type) ==
    IF MapHas(engine.prompts, prompt_type)
    THEN Some(MapGet(engine.prompts, prompt_type))
    ELSE None

\* #[pyfunction] initialize_engine(config_path): Ok(true), nothing is read
initialize_engine(config_path) == [ok |-> TRUE, value |-> TRUE]

\* #[pyfunction] extract_modules(text): a new engine each call
extractor_extract_modules(text) ==
    [ok |-> TRUE,
     value |-> ExtractionEngine_extract_modules(ExtractionEngine_new, text)]

\* #[pyfunction] extract_steps(text): a new engine each call
extractor_extract_steps(text) ==
    [ok |-> TRUE,
     value |-> ExtractionEngine_extract_steps(ExtractionEngine_new, text)]

\* #[pyfunction] get_prompt(prompt_type): a new engine each call
extractor_get_prompt(prompt_type) ==
    LET found == ExtractionEngine_get_prompt(ExtractionEngine_new, prompt_type)
    IN  IF found.some
        THEN [ok |-> TRUE, value |-> found.val]
        ELSE [ok |-> FALSE, err |-> "KeyError"]

\* the paths a caller passes to initialize_engine
ConfigPaths == {"engine.json"}

----------------------------------------------------------------------------
(* State *)

VARIABLES
    crate,           \* the library the process loaded
    now,             \* the system clock (Utc::now, SystemTime::now)
    config_manager,  \* ml_core: a ConfigManager the caller owns
    license_manager, \* ml_core: a LicenseManager the caller owns
    feature_access,  \* ml_core: a FeatureAccess the caller owns
    legacy_manager,  \* ml_core_legacy: a LicenseManager the caller owns
    legacy_config_manager, \* ml_core_legacy: a ConfigManager the caller owns
    SESSION,         \* codex_core: static mut SESSION
    output_file,     \* ml_core: the file at the output_path of save_license
    engine,          \* ml_core: an ExtractionEngine the caller owns
    ret,             \* the last call and what it returned
    seen_expired,    \* history: the clock has shown anchor + 14 days or later
    core_license,    \* history: the License the session in force was activated
                     \* under, None while no activation is in force
    probe,           \* a function applied on its own: inputs and result
    threads,         \* concurrent callers: where each thread is in its call,
                     \* and its locals
    observed,        \* concurrent callers: what the last reader read
    completed        \* history: check_access calls returned, per identity

vars == <<crate, now, config_manager, license_manager, feature_access,
          legacy_manager, legacy_config_manager, SESSION, output_file,
          engine, ret, seen_expired, core_license, probe, threads, observed,
          completed>>

\* what no call made by a single caller touches
others == <<probe, threads, observed, completed>>

\* the threads that call into the library
Threads == {"t1", "t2"}

NoFile == [kind |-> "none"]

objects == <<config_manager, license_manager, feature_access,
             legacy_manager, SESSION>>

Crates == {"ml_core", "ml_core_legacy", "codex_core"}

NoCall == [op |-> "none"]

Init ==
    /\ crate \in Crates
    /\ now \in Instants
    /\ config_manager = ConfigManager_new
    /\ license_manager = LicenseManager_new
    /\ feature_access = FeatureAccess_new
    /\ legacy_manager = LegacyLicenseManager_new
    /\ legacy_config_manager = LegacyConfigManager_new
    /\ SESSION = None
    /\ output_file = NoFile
    /\ engine = ExtractionEngine_new
    /\ ret = NoCall
    /\ seen_expired = (now >= get_hardcoded_expiration)
    /\ core_license = None
    /\ probe = NoCall
    /\ threads = [t \in Threads |-> [pc |-> "idle", file |-> NoFile]]
    /\ observed = NoCall
    /\ completed = [id \in IDs |-> 0]

----------------------------------------------------------------------------
(* The clock *)

\* time passes
Tick ==
    /\ \E t \in Instants : t > now /\ now' = t
    /\ ret' = NoCall
    /\ seen_expired' = (seen_expired \/ now' >= get_hardcoded_expiration)
    /\ UNCHANGED <<crate, legacy_config_manager, engine, output_file, objects, core_license, others>>

\* the system clock is set back (it is under the host's control)
ClockSetBack ==
    /\ \E t \in Instants : t < now /\ now' = t
    /\ ret' = NoCall
    /\ UNCHANGED <<crate, legacy_config_manager, engine, output_file, objects, seen_expired, core_license, others>>

----------------------------------------------------------------------------
(* ml_core: ConfigManager *)

\* ConfigManager::load_config(config_path), the path naming `file`
load_config(file) ==
    /\ crate = "ml_core"
    /\ config_manager' =
        IF load_config_ok(config_manager, file, now)
        THEN load_config_store(config_manager, file.config, now)
        ELSE config_manager
    /\ ret' = [op |-> "load_config", file |-> file,
               ok |-> load_config_ok(config_manager, file, now),
               replaced |-> /\ file.kind = "config"
                            /\ MapHas(config_manager.sessions,
                                      file.config.customer_id)]
    /\ UNCHANGED <<seen_expired, core_license, others>>
    /\ UNCHANGED <<crate, legacy_config_manager, engine, output_file, now, license_manager, feature_access,
                   legacy_manager, SESSION>>

\* ConfigManager::validate_feature(customer_id, feature)
validate_feature_call(customer_id, feature) ==
    /\ crate = "ml_core"
    /\ ret' = [op |-> "validate_feature", customer_id |-> customer_id,
               feature |-> feature,
               ok |-> validate_feature(config_manager, customer_id,
                                       feature, now)]
    /\ UNCHANGED <<seen_expired, core_license, others>>
    /\ UNCHANGED <<crate, legacy_config_manager, engine, output_file, now, objects>>

----------------------------------------------------------------------------
(* ml_core: LicenseManager and FeatureAccess *)

\* LicenseManager::load_license(license_path), the path naming `file`
load_license(file) ==
    /\ crate = "ml_core"
    /\ file \in LicenseFiles \/ file = output_file
    /\ license_manager' =
        IF load_license_ok(license_manager, file, now)
        THEN load_license_store(license_manager, file.license)
        ELSE license_manager
    /\ ret' = [op |-> "load_license", file |-> file,
               ok |-> load_license_ok(license_manager, file, now)]
    /\ UNCHANGED <<seen_expired, core_license, others>>
    /\ UNCHANGED <<crate, legacy_config_manager, engine, output_file, now, config_manager, feature_access,
                   legacy_manager, SESSION>>

\* LicenseManager::save_license(license, output_path): std::fs::write is
\* reached only for a license that passes validate_license, and its error is
\* returned
save_license(license, outcome) ==
    /\ crate = "ml_core"
    /\ output_file' =
        IF validate_license(license_manager, license, now)
        THEN fs_write(outcome, output_file, to_string_pretty(license))
        ELSE output_file
    /\ ret' = [op |-> "save_license", license |-> license,
               write |-> outcome,
               ok |-> save_license_ok(license_manager, license, now,
                                      outcome)]
    /\ UNCHANGED <<seen_expired, core_license, others>>
    /\ UNCHANGED <<crate, legacy_config_manager, engine, now, objects>>

\* FeatureAccess::check_access(customer_id, feature)
check_access_call(customer_id, feature) ==
    /\ crate = "ml_core"
    /\ feature_access' =
        [feature_access EXCEPT
            !.access_log = check_access_log(feature_access, customer_id)]
    /\ ret' = [op |-> "check_access", customer_id |-> customer_id,
               feature |-> feature,
               ok |-> check_access(feature_access, customer_id, feature, now)]
    /\ UNCHANGED <<seen_expired, core_license, others>>
    /\ UNCHANGED <<crate, legacy_config_manager, engine, output_file, now, config_manager, license_manager,
                   legacy_manager, SESSION>>

\* FeatureAccess::get_available_features(customer_id)
get_available_features_call(customer_id) ==
    /\ crate = "ml_core"
    /\ ret' = [op |-> "get_available_features", customer_id |-> customer_id,
               value |-> get_available_features(feature_access, customer_id,
                                                now)]
    /\ UNCHANGED <<seen_expired, core_license, others>>
    /\ UNCHANGED <<crate, legacy_config_manager, engine, output_file, now, objects>>

----------------------------------------------------------------------------
(* ml_core_legacy: LicenseManager *)

\* LicenseManager::load_license(license_path), the path naming `file`
legacy_load_license(file) ==
    /\ crate = "ml_core_legacy"
    /\ file \in LegacyLicenseFiles \/ file = output_file
    /\ legacy_manager' =
        IF legacy_load_license_ok(file, now)
        THEN legacy_load_license_store(legacy_manager, file.license)
        ELSE legacy_manager
    /\ ret' = [op |-> "legacy_load_license", file |-> file,
               ok |-> legacy_load_license_ok(file, now)]
    /\ UNCHANGED <<seen_expired, core_license, others>>
    /\ UNCHANGED <<crate, legacy_config_manager, engine, output_file, now, config_manager, license_manager,
                   feature_access, SESSION>>

\* LicenseManager::validate_license(customer_id, feature)
legacy_validate_license_call(customer_id, feature) ==
    /\ crate = "ml_core_legacy"
    /\ ret' = [op |-> "legacy_validate_license", customer_id |-> customer_id,
               feature |-> feature,
               ok |-> legacy_validate_license(legacy_manager, customer_id,
                                              feature, now)]
    /\ UNCHANGED <<seen_expired, core_license, others>>
    /\ UNCHANGED <<crate, legacy_config_manager, engine, output_file, now, objects>>

\* LicenseManager::save_license(license, output_path): the license is
\* written whatever it holds and whatever the clock shows; the call fails
\* only where std::fs::write does
legacy_save_license(license, outcome) ==
    /\ crate = "ml_core_legacy"
    /\ output_file' =
        fs_write(outcome, output_file, to_string_pretty(license))
    /\ ret' = [op |-> "legacy_save_license", license |-> license,
               write |-> outcome, ok |-> fs_write_ok(outcome)]
    /\ UNCHANGED <<seen_expired, core_license, others>>
    /\ UNCHANGED <<crate, legacy_config_manager, engine, now, objects>>

----------------------------------------------------------------------------
(* ml_core_legacy: ConfigManager *)

\* ConfigManager::load_config(config_path), the path naming `file`
legacy_load_config(file) ==
    /\ crate = "ml_core_legacy"
    /\ legacy_config_manager' =
        IF legacy_load_config_ok(file, now)
        THEN legacy_load_config_store(legacy_config_manager, file.config)
        ELSE legacy_config_manager
    /\ ret' = [op |-> "legacy_load_config", file |-> file,
               ok |-> legacy_load_config_ok(file, now)]
    /\ UNCHANGED <<seen_expired, core_license, others>>
    /\ UNCHANGED <<crate, engine, output_file, now, objects>>

\* ConfigManager::validate_feature(customer_id, feature)
legacy_validate_feature_call(customer_id, feature) ==
    /\ crate = "ml_core_legacy"
    /\ ret' = [op |-> "legacy_validate_feature", customer_id |-> customer_id,
               feature |-> feature,
               ok |-> legacy_validate_feature(legacy_config_manager,
                                              customer_id, feature, now)]
    /\ UNCHANGED <<seen_expired, core_license, others>>
    /\ UNCHANGED <<crate, legacy_config_manager, engine, output_file, now,
                   objects>>

----------------------------------------------------------------------------
(* codex_core *)

\* initialize_core(license_path), the path naming `file`
initialize_core(file) ==
    /\ crate = "codex_core"
    /\ SESSION' = initialize_core_session(SESSION, file, now)
    /\ ret' = [op |-> "initialize_core", file |-> file,
               ok |-> initialize_core_error(file, now) = "",
               err |-> initialize_core_error(file, now)]
    /\ core_license' = IF initialize_core_error(file, now) = ""
                       THEN Some(file.license) ELSE None
    /\ UNCHANGED <<seen_expired, others>>
    /\ UNCHANGED <<crate, legacy_config_manager, engine, output_file, now, config_manager, license_manager,
                   feature_access, legacy_manager>>

\* extract_modules(text)
extract_modules_call(text) ==
    /\ crate = "codex_core"
    /\ ret' = [op |-> "extract_modules", text |-> text,
               ok |-> extract_modules(SESSION, text).ok,
               result |-> extract_modules(SESSION, text)]
    /\ UNCHANGED <<seen_expired, core_license, others>>
    /\ UNCHANGED <<crate, legacy_config_manager, engine, output_file, now, objects>>

\* extract_steps(text)
extract_steps_call(text) ==
    /\ crate = "codex_core"
    /\ ret' = [op |-> "extract_steps", text |-> text,
               ok |-> extract_steps(SESSION, text).ok,
               result |-> extract_steps(SESSION, text)]
    /\ UNCHANGED <<seen_expired, core_license, others>>
    /\ UNCHANGED <<crate, legacy_config_manager, engine, output_file, now, objects>>

\* get_llm_prompt(prompt_type)
get_llm_prompt_call(prompt_type) ==
    /\ crate = "codex_core"
    /\ ret' = [op |-> "get_llm_prompt", prompt_type |-> prompt_type,
               ok |-> get_llm_prompt(SESSION, prompt_type).ok,
               result |-> get_llm_prompt(SESSION, prompt_type)]
    /\ UNCHANGED <<seen_expired, core_license, others>>
    /\ UNCHANGED <<crate, legacy_config_manager, engine, output_file, now, objects>>

----------------------------------------------------------------------------
(* ml_core: engine::extractor *)

\* initialize_engine(config_path)
initialize_engine_call(config_path) ==
    /\ crate = "ml_core"
    /\ ret' = [op |-> "initialize_engine", config_path |-> config_path,
               ok |-> initialize_engine(config_path).ok,
               result |-> initialize_engine(config_path)]
    /\ UNCHANGED <<seen_expired, core_license, others>>
    /\ UNCHANGED <<crate, legacy_config_manager, engine, output_file, now, objects>>

\* engine::extractor::extract_modules(text)
extractor_extract_modules_call(text) ==
    /\ crate = "ml_core"
    /\ ret' = [op |-> "extractor_extract_modules", text |-> text,
               ok |-> extractor_extract_modules(text).ok,
               result |-> extractor_extract_modules(text)]
    /\ UNCHANGED <<seen_expired, core_license, others>>
    /\ UNCHANGED <<crate, legacy_config_manager, engine, output_file, now, objects>>

\* engine::extractor::extract_steps(text)
extractor_extract_steps_call(text) ==
    /\ crate = "ml_core"
    /\ ret' = [op |-> "extractor_extract_steps", text |-> text,
               ok |-> extractor_extract_steps(text).ok,
               result |-> extractor_extract_steps(text)]
    /\ UNCHANGED <<seen_expired, core_license, others>>
    /\ UNCHANGED <<crate, legacy_config_manager, engine, output_file, now, objects>>

\* engine::extractor::get_prompt(prompt_type)
extractor_get_prompt_call(prompt_type) ==
    /\ crate = "ml_core"
    /\ ret' = [op |-> "extractor_get_prompt", prompt_type |-> prompt_type,
               ok |-> extractor_get_prompt(prompt_type).ok,
               result |-> extractor_get_prompt(prompt_type)]
    /\ UNCHANGED <<seen_expired, core_license, others>>
    /\ UNCHANGED <<crate, legacy_config_manager, engine, output_file, now, objects>>

----------------------------------------------------------------------------
(* Functions applied on their own *)

\* what the system clock may show at a reading
ClockReadings ==
    {-Days(1) - 1, -Days(1), -Hours(12), -1, 0, 1,
     Days(1) - 1, Days(1), Days(1) + 1,
     BUILD_TIMESTAMP, BUILD_TIMESTAMP + Days(1) - 1, BUILD_TIMESTAMP + Days(1)}

\* Utc::now() when the clock shows t: chrono takes
\* SystemTime::now().duration_since(UNIX_EPOCH) and panics ("system time
\* before Unix epoch") when the clock is before the epoch
Utc_now(t) ==
    IF t >= 0 THEN [ok |-> TRUE, timestamp |-> t] ELSE [ok |-> FALSE]

\* ValidationConfig::detect_clock_manipulation, the clock showing `utc` when
\* Utc::now() is read and `system` when SystemTime::now() is read after it
\* (the clock may be stepped in between).  A call that panics returns
\* nothing: it does not pass.
detect_clock_manipulation_call(system, utc) ==
    /\ probe' =
        IF Utc_now(utc).ok
        THEN [op |-> "detect_clock_manipulation", system |-> system,
              utc |-> utc, panic |-> FALSE,
              obtained |-> duration_since_UNIX_EPOCH(system).ok,
              pass |-> detect_clock_manipulation(
                          unwrap_or_default(duration_since_UNIX_EPOCH(system)),
                          Utc_now(utc).timestamp)]
        ELSE [op |-> "detect_clock_manipulation", system |-> system,
              utc |-> utc, panic |-> TRUE, obtained |-> FALSE,
              pass |-> FALSE]
    /\ UNCHANGED <<crate, legacy_config_manager, engine, output_file, now, objects, ret, seen_expired,
                   core_license, threads, observed, completed>>

\* decrypt_payload(encrypted_data, key): the blob is `plaintext` sealed for
\* the identity `sealed_for` and then altered as `how` says, the key is the
\* one derived for customer_id
decrypt_payload_call(sealed_for, plaintext, how, customer_id) ==
    /\ probe' =
        [op |-> "decrypt_payload", sealed_for |-> sealed_for,
         plaintext |-> plaintext, how |-> how, customer_id |-> customer_id,
         result |->
            decrypt_payload(
                Alter(Encrypt(derive_session_key(sealed_for),
                              NonceBytes("nonce-0"), plaintext), how),
                derive_session_key(customer_id))]
    /\ UNCHANGED <<crate, legacy_config_manager, engine, output_file, now, objects, ret, seen_expired, core_license,
                   threads, observed, completed>>

\* the build dates the signature functions are handed
BuildDates == {BUILD_TIMESTAMP - 1, BUILD_TIMESTAMP, BUILD_TIMESTAMP + 1}

\* generate_security_signature(customer_id, build_date): the security
\* module's in call `first`, then the security module's and the licensing
\* module's in call `second`
generate_security_signature_call(customer_id, build_ts, first, second) ==
    /\ probe' =
        [op |-> "generate_security_signature", customer_id |-> customer_id,
         build_ts |-> build_ts, first |-> first, second |-> second,
         security |->
            generate_security_signature_in(first, customer_id, build_ts),
         again |->
            generate_security_signature_in(second, customer_id, build_ts),
         licensing |->
            License_generate_security_signature_in(second, customer_id,
                                                   build_ts)]
    /\ UNCHANGED <<crate, legacy_config_manager, engine, output_file, now, objects, ret, seen_expired, core_license,
                   threads, observed, completed>>

\* License::new(customer_id, features), then validate_signature of the result
License_new_call(customer_id, features) ==
    /\ probe' =
        [op |-> "License_new",
         license |-> License_new(customer_id, features),
         verified |->
            License_validate_signature(License_new(customer_id, features))]
    /\ UNCHANGED <<crate, legacy_config_manager, engine, output_file, now, objects, ret, seen_expired, core_license,
                   threads, observed, completed>>

\* ValidationConfig::new(customer_id, features), then
\* validate_security_signature of the result
ValidationConfig_new_call(customer_id, features) ==
    /\ probe' =
        [op |-> "ValidationConfig_new",
         config |-> ValidationConfig_new(customer_id, features),
         verified |->
            validate_security_signature(
                ValidationConfig_new(customer_id, features))]
    /\ UNCHANGED <<crate, legacy_config_manager, engine, output_file, now, objects, ret, seen_expired, core_license,
                   threads, observed, completed>>

\* issued_at values a License file may carry: the anchor, and one past the
\* file's expires_at
IssuedChoices == {BUILD_TIMESTAMP, BUILD_TIMESTAMP + Days(400)}

\* the License values the gate is asked about
GateLicenses ==
    {[l EXCEPT !.issued_at = i] : l \in Licenses, i \in IssuedChoices}

\* ValidationConfig::is_valid and ValidationConfig::days_remaining of a
\* record read from a file, at clock reading t
ValidationConfig_gate_call(config, t) ==
    /\ probe' =
        [op |-> "ValidationConfig_gate", config |-> config, t |-> t,
         is_valid |-> is_valid(config, t),
         days_remaining |-> days_remaining(t)]
    /\ UNCHANGED <<crate, legacy_config_manager, engine, output_file, now, objects, ret, seen_expired, core_license,
                   threads, observed, completed>>

\* License::is_valid and License::days_remaining of a record read from a
\* file, at clock reading t
License_gate_call(license, t) ==
    /\ probe' =
        [op |-> "License_gate", license |-> license, t |-> t,
         is_valid |-> License_is_valid(license, t),
         days_remaining |-> License_days_remaining(license, t)]
    /\ UNCHANGED <<crate, legacy_config_manager, engine, output_file, now, objects, ret, seen_expired, core_license,
                   threads, observed, completed>>

\* the clock readings days_remaining is asked at: the instants of the clock,
\* and readings a day and more before the anchor
DayReadings ==
    Instants \cup {BUILD_TIMESTAMP - Days(1) - 1, BUILD_TIMESTAMP - Days(1),
                   BUILD_TIMESTAMP - Days(1) + 1}

\* ValidationConfig::days_remaining at two readings of a clock that advances
days_remaining_call(earlier, later) ==
    /\ earlier <= later
    /\ probe' =
        [op |-> "days_remaining", earlier |-> earlier, later |-> later,
         at_earlier |-> days_remaining(earlier),
         at_later |-> days_remaining(later)]
    /\ UNCHANGED <<crate, legacy_config_manager, engine, output_file, now, objects, ret, seen_expired,
                   core_license, threads, observed, completed>>

\* the levels whose arm of validate_configuration asks days_remaining
\* (ConfigManager::new selects Maximum)
DayCountingLevels == {"Enhanced", "Maximum"}

\* ConfigManager::validate_configuration(config) at `level`, at clock
\* reading t
validate_configuration_call(level, config, t) ==
    /\ probe' =
        [op |-> "validate_configuration", level |-> level,
         config |-> config, t |-> t,
         accepted |->
            validate_configuration(
                [ConfigManager_new EXCEPT !.security_level = level],
                config, t)]
    /\ UNCHANGED <<crate, legacy_config_manager, engine, output_file, now, objects, ret, seen_expired,
                   core_license, threads, observed, completed>>

\* apply_module_extraction(text, rules) and apply_step_extraction(text, rules)
apply_extraction_call(text, rules) ==
    /\ probe' =
        [op |-> "apply_extraction", text |-> text,
         module_patterns |-> rules.module_patterns,
         step_patterns |-> rules.step_patterns,
         modules |-> apply_module_extraction(text, rules),
         steps |-> apply_step_extraction(text, rules)]
    /\ UNCHANGED <<crate, legacy_config_manager, engine, output_file, now, objects, ret,
                   seen_expired, core_license, threads, observed, completed>>

\* self.patterns.get(category), no patterns where the map has no such key
patterns_get(self, category) ==
    IF MapHas(self.patterns, category)
    THEN MapGet(self.patterns, category)
    ELSE <<>>

\* ExtractionEngine::extract_modules(text) and extract_steps(text) of the
\* caller's engine
ExtractionEngine_extract_call(text) ==
    /\ probe' =
        [op |-> "ExtractionEngine_extract", text |-> text,
         module_patterns |-> patterns_get(engine, "module"),
         step_patterns |-> patterns_get(engine, "step"),
         modules |-> ExtractionEngine_extract_modules(engine, text),
         steps |-> ExtractionEngine_extract_steps(engine, text)]
    /\ UNCHANGED <<crate, legacy_config_manager, engine, output_file, now, objects, ret,
                   seen_expired, core_license, threads, observed, completed>>

\* ExtractionEngine::load_config(config_data) on the caller's engine
ExtractionEngine_load_config_call(config_data) ==
    /\ engine' = ExtractionEngine_load_config(engine, config_data).self
    /\ probe' =
        [op |-> "ExtractionEngine_load_config", config_data |-> config_data,
         before |-> engine,
         ok |-> ExtractionEngine_load_config(engine, config_data).ok]
    /\ UNCHANGED <<crate, legacy_config_manager, output_file, now, objects, ret,
                   seen_expired, core_license, threads, observed, completed>>

\* the prompt types a caller asks the engine for
EnginePromptTypes == {"summary", "outline", "unknown"}

\* ExtractionEngine::get_prompt(prompt_type) of the caller's engine
ExtractionEngine_get_prompt_call(prompt_type) ==
    /\ probe' =
        [op |-> "ExtractionEngine_get_prompt", prompt_type |-> prompt_type,
         result |-> ExtractionEngine_get_prompt(engine, prompt_type)]
    /\ UNCHANGED <<crate, legacy_config_manager, engine, output_file, now, objects, ret,
                   seen_expired, core_license, threads, observed, completed>>

----------------------------------------------------------------------------
(* Concurrent callers.  A step is one statement's access to static mut     *)
(* SESSION.  SESSION is private to protected_core and is touched only by    *)
(* its four #[pyfunction]s, which Python threads call through the           *)
(* codex_core module.  FeatureAccess::check_access takes &self and may run  *)
(* on several threads at once.                                              *)

\* the license files the concurrent activations are given
ConcurrentFiles ==
    {f \in CoreLicenseFiles :
        \/ f.kind = "missing"
        \/ /\ f.kind = "license"
           /\ f.license.customer_id = "cust-1"
           /\ f.license.expiration = BUILD_TIMESTAMP + Days(14)}

\* the most check_access calls counted per identity
MaxCalls == 3

\* the thread moves on to `pc`
goto(thr, t, pc) == [thr EXCEPT ![t].pc = pc]

\* the thread has returned; the record of its last activation is kept
return(thr, t) == [thr EXCEPT ![t] = [pc |-> "idle", file |-> thr[t].file]]

\* session.<field> = value inside `if let Some(session) = &mut SESSION`
set_field(session, field, value) ==
    IF session.some
    THEN Some([session.val EXCEPT ![field] = value])
    ELSE session

\* The functions run as plain Rust functions on threads of their own, with
\* nothing to keep two calls apart.  C20 must not hold of it.
interpreter_lock_free_unlocked(thr) == TRUE

\* Whether a call into codex_core may start.  initialize_core,
\* extract_modules, extract_steps and get_llm_prompt are private
\* #[pyfunction]s that only the #[pymodule] exports: each is entered from the
\* Python interpreter with the interpreter lock held and none releases it
\* (no Python::allow_threads), so a call starts on a thread only while no
\* other thread is inside one.
interpreter_lock_free(thr) == \A u \in Threads : thr[u].pc = "idle"

\* initialize_core(file) on thread t: SESSION = Some(Session::new())
initialize_core_reset(t, file) ==
    /\ crate = "codex_core"
    /\ threads[t].pc = "idle"
    /\ interpreter_lock_free(threads)
    /\ SESSION' = Some(CoreSession_new)
    /\ threads' = [threads EXCEPT ![t] = [pc |-> "verify", file |-> file]]
    /\ UNCHANGED <<crate, legacy_config_manager, engine, output_file, now, config_manager,
                   license_manager, feature_access, legacy_manager, ret,
                   seen_expired, core_license, probe, observed, completed>>

\* initialize_core on thread t: read, parse, expiration, signature, decrypt;
\* an error returns
initialize_core_verify(t) ==
    /\ threads[t].pc = "verify"
    /\ threads' =
        IF initialize_core_error(threads[t].file, now) = ""
        THEN goto(threads, t, "set_rules")
        ELSE goto(threads, t, "idle")
    /\ UNCHANGED <<crate, legacy_config_manager, engine, output_file, now, objects, ret,
                   seen_expired, core_license, probe, observed, completed>>

\* initialize_core on thread t: session.rules = Some(rules)
initialize_core_set_rules(t) ==
    /\ threads[t].pc = "set_rules"
    /\ SESSION' = set_field(SESSION, "rules",
            Some(decrypt_payload(ENCRYPTED_PAYLOAD,
                derive_session_key(threads[t].file.license.customer_id)).rules))
    /\ threads' = goto(threads, t, "set_customer_id")
    /\ UNCHANGED <<crate, legacy_config_manager, engine, output_file, now, config_manager,
                   license_manager, feature_access, legacy_manager, ret,
                   seen_expired, core_license, probe, observed, completed>>

\* initialize_core on thread t: session.customer_id = license.customer_id
initialize_core_set_customer_id(t) ==
    /\ threads[t].pc = "set_customer_id"
    /\ SESSION' = set_field(SESSION, "customer_id",
                            threads[t].file.license.customer_id)
    /\ threads' = goto(threads, t, "set_watermark")
    /\ UNCHANGED <<crate, legacy_config_manager, engine, output_file, now, config_manager,
                   license_manager, feature_access, legacy_manager, ret,
                   seen_expired, core_license, probe, observed, completed>>

\* initialize_core on thread t: session.watermark = generate_watermark(..),
\* and Ok(true)
initialize_core_set_watermark(t) ==
    /\ threads[t].pc = "set_watermark"
    /\ SESSION' = set_field(SESSION, "watermark",
            generate_watermark(threads[t].file.license.customer_id))
    /\ threads' = goto(threads, t, "idle")
    /\ UNCHANGED <<crate, legacy_config_manager, engine, output_file, now, config_manager,
                   license_manager, feature_access, legacy_manager, ret,
                   seen_expired, core_license, probe, observed, completed>>

\* the calls that read SESSION, and what they are passed
ReaderCalls ==
    {[op |-> "extract_modules", arg |-> text] : text \in Texts}
    \cup {[op |-> "extract_steps", arg |-> text] : text \in Texts}
    \cup {[op |-> "get_llm_prompt", arg |-> pt] : pt \in PromptTypes}

\* what a reader that returned an error observed
failed(op, err) ==
    [op |-> op, ok |-> FALSE, result |-> [ok |-> FALSE, err |-> err]]

\* extract_modules, extract_steps or get_llm_prompt on thread t:
\* `let session = SESSION.as_ref().ok_or_else(..)?`
reader_session_as_ref(t, call) ==
    /\ crate = "codex_core"
    /\ threads[t].pc = "idle"
    /\ interpreter_lock_free(threads)
    /\ IF SESSION.some
       THEN /\ threads' = [threads EXCEPT ![t] =
                    [pc |-> "rules_as_ref", file |-> threads[t].file,
                     op |-> call.op, arg |-> call.arg]]
            /\ UNCHANGED observed
       ELSE /\ observed' = failed(call.op, "Core not initialized")
            /\ UNCHANGED threads
    /\ UNCHANGED <<crate, legacy_config_manager, engine, output_file, now, objects, ret,
                   seen_expired, core_license, probe, completed>>

\* the reader on thread t: `let rules = session.rules.as_ref().ok_or_else(..)?`
\* reads the session that is in SESSION now and keeps a reference to its
\* rules
reader_rules_as_ref(t) ==
    /\ threads[t].pc = "rules_as_ref"
    /\ IF SESSION.val.rules.some
       THEN /\ threads' = [threads EXCEPT ![t] =
                    [pc |-> "apply", file |-> threads[t].file,
                     op |-> threads[t].op, arg |-> threads[t].arg,
                     rules |-> SESSION.val.rules.val]]
            /\ UNCHANGED observed
       ELSE /\ observed' = failed(threads[t].op, "Rules not loaded")
            /\ threads' = return(threads, t)
    /\ UNCHANGED <<crate, legacy_config_manager, engine, output_file, now, objects, ret,
                   seen_expired, core_license, probe, completed>>

\* what the reader computes from the rules it reads
apply(op, arg, rules) ==
    CASE op = "extract_modules" ->
            [ok |-> TRUE, value |-> apply_module_extraction(arg, rules)]
      [] op = "extract_steps" ->
            [ok |-> TRUE, value |-> apply_step_extraction(arg, rules)]
      [] op = "get_llm_prompt" ->
            IF arg \in DOMAIN rules.llm_prompts
            THEN [ok |-> TRUE, value |-> rules.llm_prompts[arg]]
            ELSE [ok |-> FALSE, err |-> "KeyError"]

\* the reader on thread t, having read `rules`: get_llm_prompt returns,
\* extract_modules and extract_steps go on to the watermark
reader_applied(thr, t, rules) ==
    IF thr[t].op = "get_llm_prompt"
    THEN return(thr, t)
    ELSE [thr EXCEPT ![t] =
            [pc |-> "add_watermark", file |-> thr[t].file, op |-> thr[t].op,
             rules |-> rules, result |-> apply(thr[t].op, thr[t].arg, rules)]]

\* what a get_llm_prompt that read `rules` observed
prompt_read(thr, t, rules) ==
    [op |-> thr[t].op, ok |-> apply(thr[t].op, thr[t].arg, rules).ok,
     rules |-> Some(rules), result |-> apply(thr[t].op, thr[t].arg, rules)]

\* the reader on thread t: apply_module_extraction(text, rules),
\* apply_step_extraction(text, rules) or rules.llm_prompts.get(prompt_type)
reader_apply(t) ==
    /\ threads[t].pc = "apply"
    /\ threads' = reader_applied(threads, t, threads[t].rules)
    /\ IF threads[t].op = "get_llm_prompt"
       THEN observed' = prompt_read(threads, t, threads[t].rules)
       ELSE UNCHANGED observed
    /\ UNCHANGED <<crate, legacy_config_manager, engine, output_file, now, objects, ret,
                   seen_expired, core_license, probe, completed>>

\* the reader on thread t: add_watermark(items, &session.watermark), the
\* watermark that is in SESSION now, and Ok(items)
reader_add_watermark(t) ==
    /\ threads[t].pc = "add_watermark"
    /\ observed' =
        [op |-> threads[t].op, ok |-> TRUE,
         rules |-> Some(threads[t].rules),
         watermark |-> SESSION.val.watermark,
         result |-> [ok |-> TRUE,
                     value |-> add_watermark(threads[t].result.value,
                                             SESSION.val.watermark)]]
    /\ threads' = return(threads, t)
    /\ UNCHANGED <<crate, legacy_config_manager, engine, output_file, now, objects, ret,
                   seen_expired, core_license, probe, completed>>

\* FeatureAccess::check_access(customer_id, feature) on thread t: the count
\* is read and incremented into a local
check_access_read(t, customer_id, feature) ==
    /\ crate = "ml_core"
    /\ threads[t].pc = "idle"
    /\ completed[customer_id]
        + Cardinality({u \in Threads :
                        /\ threads[u].pc = "validate"
                        /\ threads[u].customer_id = customer_id})
        < MaxCalls
    /\ threads' = [threads EXCEPT ![t] =
            [pc |-> "validate", file |-> NoFile,
             customer_id |-> customer_id, feature |-> feature,
             access_count |->
                access_log_get(feature_access.access_log, customer_id) + 1]]
    /\ UNCHANGED <<crate, legacy_config_manager, engine, output_file, now, objects, ret, seen_expired, core_license,
                   probe, observed, completed>>

\* check_access on thread t: the limit, validate_license_access, return
check_access_return(t) ==
    /\ threads[t].pc = "validate"
    /\ feature_access' =
        [feature_access EXCEPT
            !.access_log = check_access_log(feature_access,
                                            threads[t].customer_id)]
    /\ observed' =
        [op |-> "check_access", customer_id |-> threads[t].customer_id,
         ok |-> IF threads[t].access_count > ACCESS_LOG_LIMIT
                THEN FALSE
                ELSE validate_license_access(feature_access.manager,
                        threads[t].customer_id, threads[t].feature, now)]
    /\ completed' = [completed EXCEPT ![threads[t].customer_id] = @ + 1]
    /\ threads' = [threads EXCEPT ![t] = [pc |-> "idle", file |-> NoFile]]
    /\ UNCHANGED <<crate, legacy_config_manager, engine, output_file, now, config_manager, license_manager,
                   legacy_manager, SESSION, ret, seen_expired, core_license,
                   probe>>

----------------------------------------------------------------------------
(* Properties *)

\* the calls that activate an entitlement record
ActivationOps ==
    {"load_config", "load_license", "legacy_load_license",
     "legacy_load_config", "initialize_core"}

\* the authoritative expiration: anchor + 14 days
AnchorExpiration == BUILD_TIMESTAMP + Days(14)

\* C1: at every clock value now >= anchor + 14 days, every activation entry
\* point rejects every record, whatever expiration the record carries.
C1_ExpiredAnchorRejected ==
    (ret.op \in ActivationOps /\ now >= AnchorExpiration) => ~ret.ok

\* C2: a well-formed, rightly signed record is accepted by load_config at
\* every clock value with anchor <= now < anchor + 14 days.
C2_ValidWindowAccepted ==
    ( /\ ret.op = "load_config"
      /\ ret.file.kind = "config"
      /\ ret.file.config.build_signature =
            generate_security_signature(ret.file.config.customer_id,
                                        BUILD_TIMESTAMP)
      /\ BUILD_TIMESTAMP <= now
      /\ now < AnchorExpiration )
    => ret.ok

\* a codex_core session that was activated: its rules are loaded
Activated(session) == session.some /\ session.val.rules.some

\* C3: an activation call that returns an error changes no object; a session
\* activated earlier is still there afterwards.
C3_FailedActivationKeepsState ==
    [][ (ret'.op \in ActivationOps /\ ~ret'.ok)
        => /\ UNCHANGED <<config_manager, license_manager, legacy_manager,
                        legacy_config_manager>>
           /\ Activated(SESSION) => SESSION' = SESSION ]_vars

\* the layers of the pipeline, for a parsed config at clock reading t
AllLayersPass(config, t) ==
    /\ t < AnchorExpiration
    /\ BUILD_TIMESTAMP <= t
    /\ Abs(t - t) < MAX_CLOCK_DRIFT_SECONDS
    /\ config.build_signature =
            generate_security_signature(config.customer_id, BUILD_TIMESTAMP)
    /\ validate_environment

\* C4: load_config accepts a parsed record if and only if every layer passes
\* (expiration, anchor, clock, signature, environment).
C4_AcceptedIffAllLayersPass ==
    (ret.op = "load_config" /\ ret.file.kind = "config")
    => (ret.ok <=> AllLayersPass(ret.file.config, now))

\* The half of C4 that the code keeps: a record with a failing layer is never
\* accepted and no session is made from it.
C4_AnyLayerFailingRejects ==
    (ret.op = "load_config" /\ ret.file.kind = "config"
        /\ ~AllLayersPass(ret.file.config, now))
    => /\ ~ret.ok
       /\ ~is_valid(ret.file.config, now)

\* a session of the store is live at t, in the words of the specification
Live(session, t) ==
    /\ t < AnchorExpiration
    /\ BUILD_TIMESTAMP <= t
    /\ session.config.build_signature =
            generate_security_signature(session.config.customer_id,
                                        BUILD_TIMESTAMP)
    /\ t - session.session_start < Days(1)
    /\ session.access_count < 1000

\* C5: a feature check returns true only if a session for the identity is in
\* the store and live, the feature is in its record, and the identity's
\* access count is below 1000.
C5_AccessOnlyWhenLive ==
    /\ (ret.op = "validate_feature" /\ ret.ok)
       => \E e \in config_manager.sessions :
            /\ e.key = ret.customer_id
            /\ Live(e.val, now)
            /\ \E i \in DOMAIN e.val.config.features :
                    e.val.config.features[i] = ret.feature
    /\ (ret.op = "check_access" /\ ret.ok)
       => /\ access_log_get(feature_access.access_log, ret.customer_id) < 1000
          /\ \E e \in feature_access.manager.security_manager.sessions :
                /\ e.key = ret.customer_id
                /\ Live(e.val, now)
                /\ \E i \in DOMAIN e.val.config.features :
                        e.val.config.features[i] = ret.feature

C5_Witness == ret.op = "validate_feature" /\ ret.ok

\* C6: every check_access call raises the identity's access count by one.
C6_AccessCountIncrements ==
    [][ ret'.op = "check_access"
        => access_log_get(feature_access'.access_log, ret'.customer_id)
           = access_log_get(feature_access.access_log, ret'.customer_id) + 1
      ]_vars

\* C7: a stored session is active exactly when its record validates now,
\* fewer than 24 hours have passed since it started, and its access count
\* is below 1000; nothing is cached from the activation.
C7_ActiveIffLive ==
    \A e \in config_manager.sessions :
        is_active(e.val, now) <=> Live(e.val, now)

\* a session that was live when made and is no longer: exactly 24 hours old
\* inside the 14 days, or the 14 days are over
C7_Witness ==
    \E e \in config_manager.sessions :
        /\ ~is_active(e.val, now)
        /\ \/ /\ now = e.val.session_start + Days(1)
              /\ now < AnchorExpiration
           \/ now >= AnchorExpiration

\* C8: the store holds at most one session per identity, and after a
\* successful load_config the identity's only session is the new one, started
\* now with access count 0; in codex_core the one SESSION is the new one.
C8_OneSessionPerIdentity ==
    /\ \A id \in IDs :
        Cardinality({e \in config_manager.sessions : e.key = id}) <= 1
    /\ \A e \in config_manager.sessions : e.key = e.val.config.customer_id
    /\ (ret.op = "load_config" /\ ret.ok)
       => {e \in config_manager.sessions :
                e.val.config.customer_id = ret.file.config.customer_id}
          = {[key |-> ret.file.config.customer_id,
              val |-> [config |-> ret.file.config, session_start |-> now,
                       access_count |-> 0]]}
    /\ (ret.op = "initialize_core" /\ ret.ok)
       => /\ Activated(SESSION)
          /\ SESSION.val.customer_id = ret.file.license.customer_id

\* a re-activation: load_config succeeded for an identity that had a session
C8_Witness ==
    /\ ret.op = "load_config" /\ ret.ok /\ ret.replaced
    /\ \E e \in config_manager.sessions :
        e.key = ret.file.config.customer_id /\ e.val.session_start = now

\* anchors a tag may have been issued for
AnchorChoices == {BUILD_TIMESTAMP - 1, BUILD_TIMESTAMP, BUILD_TIMESTAMP + 1}

\* every tag a signature field may hold in this model
TagChoices ==
    {generate_security_signature(id, a) : id \in IDs, a \in AnchorChoices}
    \cup {Truncated(generate_security_signature(id, BUILD_TIMESTAMP)) :
            id \in IDs}
    \cup {license_signature_data(id, e, "wheel-1") :
            id \in IDs, e \in ExpiryChoices}

\* C9: for an accepted record, changing only the signature, only the identity,
\* or only the timestamp the tag is bound to makes verification fail.
C9_TamperFlipsVerify ==
    /\ (ret.op = "load_config" /\ ret.ok) =>
        LET c == ret.file.config IN
        /\ \A s \in TagChoices \ {c.build_signature} :
            ~validate_security_signature([c EXCEPT !.build_signature = s])
        /\ \A id \in IDs \ {c.customer_id} :
            ~validate_security_signature([c EXCEPT !.customer_id = id])
        /\ \A a \in AnchorChoices \ {BUILD_TIMESTAMP} :
            ~validate_security_signature(
                [c EXCEPT !.build_signature =
                    generate_security_signature(c.customer_id, a)])
    /\ \A l \in Licenses :
        License_validate_signature(l) =>
        /\ \A s \in TagChoices \ {l.security_signature} :
            ~License_validate_signature([l EXCEPT !.security_signature = s])
        /\ \A id \in IDs \ {l.customer_id} :
            ~License_validate_signature([l EXCEPT !.customer_id = id])
    /\ (ret.op = "initialize_core" /\ ret.ok) =>
        LET l == ret.file.license IN
        /\ \A s \in TagChoices \ {l.signature} :
            ~verify_license_signature([l EXCEPT !.signature = s])
        /\ \A id \in IDs \ {l.customer_id} :
            ~verify_license_signature([l EXCEPT !.customer_id = id])
        /\ \A e \in ExpiryChoices \ {l.expiration} :
            ~verify_license_signature([l EXCEPT !.expiration = e])

C9_Witness ==
    \/ ret.op = "load_config" /\ ret.ok
    \/ ret.op = "initialize_core" /\ ret.ok

\* what only the issuer and the deployed binary hold
Secrets == {SECURITY_SALT}

\* the strings built from fields that a license file shows: no secret is
\* part of them
PublicStrings ==
    {id \o ":" \o to_rfc3339(e) \o ":" \o "wheel-1" :
        id \in IDs, e \in ExpiryChoices}

\* a tag anyone can compute from a record's fields and the algorithm: a
\* digest none of whose inputs is a secret
OutsiderComputable(tag) ==
    CASE tag.alg = "sha256" -> tag.data \in PublicStrings
      [] tag.alg = "DefaultHasher" -> tag.salt \notin Secrets
      [] OTHER -> TRUE

\* C10: no activation entry point accepts a record whose signature a party
\* without the embedded secret could have computed.
C10_NoForgeableRecordAccepted ==
    /\ (ret.op = "load_config" /\ ret.ok)
       => ~OutsiderComputable(ret.file.config.build_signature)
    /\ (ret.op = "initialize_core" /\ ret.ok)
       => ~OutsiderComputable(ret.file.license.signature)

\* C11: a record that has expired cannot be made valid again by setting the
\* system clock back: once the clock has shown anchor + 14 days or later, no
\* load_config succeeds, whatever the clock shows at the call.
C11_ExpiredStaysExpired ==
    (seen_expired /\ ret.op = "load_config") => ~ret.ok

\* C12: the clock check passes exactly when both time sources were obtained
\* and they differ by less than 86400 whole seconds; a difference of exactly
\* 86400 in either direction fails, and so does an unobtainable source.
C12_ClockCheckIffWithinTolerance ==
    probe.op = "detect_clock_manipulation"
    => (probe.pass <=> /\ probe.obtained
                       /\ Abs(probe.system - probe.utc) < 86400)

\* C12, the part that holds: with both sources obtained, the check passes
\* exactly when they differ by less than 86400 seconds.
C12_WithinToleranceWhenObtained ==
    (probe.op = "detect_clock_manipulation" /\ probe.obtained)
    => (probe.pass <=> Abs(probe.system - probe.utc) < 86400)

\* C13: while the clock shows a time before the anchor, load_config fails and
\* creates no session (no stored session was started before the anchor); when
\* the clock shows exactly the anchor, the anchor check passes and a rightly
\* signed record is accepted.
C13_FutureAnchorRejected ==
    /\ (ret.op = "load_config" /\ now < BUILD_TIMESTAMP)
       => ~ret.ok
    /\ \A e \in config_manager.sessions :
            e.val.session_start >= BUILD_TIMESTAMP
    /\ (/\ ret.op = "load_config"
        /\ now = BUILD_TIMESTAMP
        /\ ret.file.kind = "config"
        /\ validate_security_signature(ret.file.config))
       => (/\ ret.ok
           /\ MapHas(config_manager.sessions, ret.file.config.customer_id))

\* C13 witness: a rightly signed record is presented while the clock shows a
\* time before the anchor, and is refused.
C13_Witness ==
    /\ ret.op = "load_config"
    /\ now < BUILD_TIMESTAMP
    /\ ret.file.kind = "config"
    /\ validate_security_signature(ret.file.config)
    /\ ~ret.ok

\* C14: decrypt_payload of a blob sealed for one identity under the key
\* derived for another, of a blob one byte of whose nonce, ciphertext or tag
\* was replaced, of a blob cut short (to fewer than the 12 bytes of the
\* nonce, or to fewer than nonce and tag) or with a byte put in front, is an
\* error and never a rule set; of the blob as it was sealed from a rule set,
\* under the key derived for the identity it was sealed for, it is exactly
\* that rule set.
C14_DecryptOnlyWithRightKey ==
    probe.op = "decrypt_payload" =>
        /\ (probe.sealed_for # probe.customer_id \/ probe.how # "none")
           => /\ ~probe.result.ok
              /\ probe.result.err \in
                    {"Invalid encrypted data", "Decryption failed"}
        /\ probe.how = "cut_to_11"
           => probe.result.err = "Invalid encrypted data"
        /\ \A r \in RuleSets :
                (/\ probe.sealed_for = probe.customer_id
                 /\ probe.how = "none"
                 /\ probe.plaintext = to_json(r))
                => (probe.result.ok /\ probe.result.rules = r)

\* C14 witness: the rules sealed for "cust-1" were handed to decrypt_payload
\* as sealed, with the key derived for "cust-1", and came back as they were.
C14_Witness ==
    /\ probe.op = "decrypt_payload"
    /\ probe.sealed_for = "cust-1"
    /\ probe.plaintext = to_json(PayloadRules)
    /\ probe.how = "none"
    /\ probe.customer_id = "cust-1"
    /\ probe.result.ok
    /\ probe.result.rules = PayloadRules

\* the calls that read the rule set: those of codex_core, and those the
\* ml_core module registers from engine::extractor
CoreRuleOps == {"extract_modules", "extract_steps", "get_llm_prompt"}

ExtractorRuleOps ==
    {"extractor_extract_modules", "extractor_extract_steps",
     "extractor_get_prompt"}

\* the rule set initialize_core decrypts for an identity
RulesFor(customer_id) ==
    decrypt_payload(ENCRYPTED_PAYLOAD, derive_session_key(customer_id)).rules

\* C15: a rule-set call returns a result only if the most recent activation
\* passed (an activation is in force), and then the rules in use are those
\* decrypted for that activation's identity; before any activation and after
\* a failed one the call is an error, not an empty or stale result.
C15_RulesOnlyAfterActivation ==
    /\ (ret.op \in CoreRuleOps /\ ret.ok)
       => (/\ core_license.some
           /\ Activated(SESSION)
           /\ SESSION.val.rules.val = RulesFor(core_license.val.customer_id))
    /\ (ret.op \in ExtractorRuleOps /\ ret.ok)
       => config_manager.sessions # {}

\* C15, the part that holds: the rule-set calls of codex_core return a result
\* exactly while an activation is in force, from the rules decrypted for its
\* identity (get_llm_prompt: for a prompt type the rules hold).
C15_CoreRulesOnlyAfterActivation ==
    ret.op \in CoreRuleOps =>
        /\ (ret.ok => /\ core_license.some
                      /\ Activated(SESSION)
                      /\ SESSION.val.rules.val =
                            RulesFor(core_license.val.customer_id))
        /\ (~core_license.some => ~ret.ok)
        /\ (core_license.some /\ ret.op # "get_llm_prompt") => ret.ok

\* C16: once the entitlement a session was activated under has expired,
\* every later rule-set call fails until a new activation succeeds: a call
\* that returns a result is made no later than the expiration of the License
\* in force.
C16_NoRulesAfterExpiry ==
    (ret.op \in CoreRuleOps /\ ret.ok)
    => (/\ core_license.some
        /\ now <= core_license.val.expiration)

\* C17: check_access never raises: it returns a boolean and nothing else, and
\* the boolean is false for an identity never activated, for an expired
\* record, for an identity over its access quota and for a feature the record
\* does not hold, one case not told from another.  The same of
\* validate_feature, which it rests on.
C17_UnmetConditionIsFalse ==
    /\ ret.op = "check_access" =>
        LET licenses == feature_access.manager.licenses
            known == MapHas(licenses, ret.customer_id)
        IN  /\ DOMAIN ret = {"op", "customer_id", "feature", "ok"}
            /\ ret.ok \in BOOLEAN
            /\ ~known => ~ret.ok
            /\ now >= AnchorExpiration => ~ret.ok
            /\ (access_log_get(feature_access.access_log, ret.customer_id) + 1
                    > ACCESS_LOG_LIMIT) => ~ret.ok
            /\ (known /\ ~has_feature(MapGet(licenses, ret.customer_id).features,
                                      ret.feature)) => ~ret.ok
    /\ ret.op = "validate_feature" =>
        LET sessions == config_manager.sessions
            known == MapHas(sessions, ret.customer_id)
        IN  /\ DOMAIN ret = {"op", "customer_id", "feature", "ok"}
            /\ ret.ok \in BOOLEAN
            /\ ~known => ~ret.ok
            /\ now >= AnchorExpiration => ~ret.ok
            /\ (known /\ MapGet(sessions, ret.customer_id).access_count
                            >= SESSION_MAX_ACCESS) => ~ret.ok
            /\ (known /\ ~has_feature(
                    MapGet(sessions, ret.customer_id).config.features,
                    ret.feature)) => ~ret.ok

\* C17 witness: check_access is asked about an identity for which nothing was
\* ever activated, and answers false.
C17_Witness ==
    /\ ret.op = "check_access"
    /\ ~MapHas(feature_access.manager.licenses, ret.customer_id)
    /\ ~ret.ok

\* C18: get_available_features returns the record's feature list exactly
\* when the identity's session is live, and the empty list otherwise, an
\* identity nothing was activated for included.
C18_FeaturesIffLive ==
    ret.op = "get_available_features" =>
        LET sessions == config_manager.sessions
        IN  IF /\ MapHas(sessions, ret.customer_id)
               /\ Live(MapGet(sessions, ret.customer_id), now)
            THEN ret.value = MapGet(sessions, ret.customer_id).config.features
            ELSE ret.value = <<>>

\* no call is under way on any thread
AllReturned == \A t \in Threads : threads[t].pc = "idle"

\* the activations that ran last on the threads
LastActivations ==
    {threads[t].file : t \in {u \in Threads : threads[u].file # NoFile}}

\* the last activations were all given a record of one identity
OneIdentity ==
    /\ LastActivations # {}
    /\ \A f, g \in LastActivations :
            /\ f.kind = "license"
            /\ g.kind = "license"
            /\ f.license.customer_id = g.license.customer_id

\* C19: concurrent activations for one identity leave the session one of
\* them would have left had it run alone, and N concurrent check_access calls
\* for an identity raise its access counter by exactly N.
C19_ConcurrentCallsAreSerialized ==
    AllReturned =>
        /\ \A id \in IDs :
                access_log_get(feature_access.access_log, id) = completed[id]
        /\ OneIdentity =>
                \E f \in LastActivations :
                    SESSION = initialize_core_session(None, f, now)

\* C19, the activations alone: when the calls have returned, SESSION is as one
\* of the last activations would have left it had it run alone (calls into
\* codex_core being kept apart by the interpreter lock).
C19_ActivationsLeaveOneSession ==
    (AllReturned /\ OneIdentity) =>
        \E f \in LastActivations :
            SESSION = initialize_core_session(None, f, now)

\* rules and watermark belong to one activation, or both are blank
ConsistentSnapshot(rules, watermark) ==
    \/ ~rules.some /\ watermark = EmptyWatermark
    \/ \E id \in IDs :
            /\ decrypt_payload(ENCRYPTED_PAYLOAD, derive_session_key(id)).ok
            /\ rules = Some(RulesFor(id))
            /\ watermark = generate_watermark(id)

\* the session holds what one activation set, or is blank in every field
WholeSession(session) ==
    \/ session = CoreSession_new
    \/ \E id \in IDs :
            /\ decrypt_payload(ENCRYPTED_PAYLOAD, derive_session_key(id)).ok
            /\ session.rules = Some(RulesFor(id))
            /\ session.customer_id = id
            /\ session.watermark = generate_watermark(id)

\* the thread is inside extract_modules, extract_steps or get_llm_prompt
InsideReader(t) == threads[t].pc \in {"rules_as_ref", "apply", "add_watermark"}

\* C20: a reader called from one thread while activations are called from
\* others sees a session whose rules, customer_id and watermark one
\* activation set, or one blank in every field, at each statement of the
\* call, and computes its result from a rules and watermark pair that one
\* activation set: never from fields of different activations, never from
\* fields partly set.
C20_ReaderSeesConsistentSnapshot ==
    /\ \A t \in Threads :
            InsideReader(t) => SESSION.some /\ WholeSession(SESSION.val)
    /\ (observed.op \in {"extract_modules", "extract_steps"} /\ observed.ok)
       => ConsistentSnapshot(observed.rules, observed.watermark)
    /\ (observed.op = "get_llm_prompt" /\ observed.ok)
       => \E id \in IDs : observed.rules = Some(RulesFor(id))

\* C20 witness: a thread that activated nothing is inside an extract call,
\* about to add the watermark, and the session it reads is the one another
\* thread's activation for "cust-1" set.
C20_Witness ==
    \E t, u \in Threads :
        /\ threads[t].pc = "add_watermark"
        /\ threads[t].file = NoFile
        /\ threads[u].file.kind = "license"
        /\ SESSION = initialize_core_session(None, threads[u].file, now)
        /\ SESSION.val.customer_id = "cust-1"


\* C21: signing is a function of its inputs, the same one in both modules:
\* two calls of the security module's generate_security_signature, each with
\* a hasher of its own, return equal tags for the same identity and build
\* date, the licensing module's returns the tag the security module's does,
\* and every record License::new or ValidationConfig::new builds passes its
\* own signature check.
C21_SigningConsistent ==
    /\ probe.op = "generate_security_signature"
       => /\ probe.security = probe.again
          /\ probe.security = probe.licensing
    /\ probe.op = "License_new" => probe.verified
    /\ probe.op = "ValidationConfig_new" => probe.verified

\* C21 witness: two different calls have signed the compiled-in anchor for
\* "cust-1", the second in both modules, and the three tags are equal.
C21_Witness ==
    /\ probe.op = "generate_security_signature"
    /\ probe.customer_id = "cust-1"
    /\ probe.build_ts = BUILD_TIMESTAMP
    /\ probe.first # probe.second
    /\ probe.security = probe.again
    /\ probe.again = probe.licensing


\* the text of the file is not a record of the expected shape: it does not
\* parse, lacks a member a field requires, or has a member no field names
Malformed(file, fields) ==
    \/ file.kind = "unparsable"
    \/ file.kind \in {"config", "license"} /\ file.members # fields

\* C22: the structural check fails closed: load_config and initialize_core
\* return an error for a file that does not parse, lacks a required member or
\* carries an unknown member (initialize_core: the parse error, no later one).
C22_MalformedRecordRejected ==
    /\ (ret.op = "load_config" /\ Malformed(ret.file, ValidationConfigFields))
       => ~ret.ok
    /\ (ret.op = "initialize_core" /\ Malformed(ret.file, CoreLicenseFields))
       => (~ret.ok /\ ret.err = "ValueError")

\* C22, the part that holds: a file that does not parse or lacks a required
\* member is rejected, by initialize_core with the parse error.
C22_UnparsableOrLackingRejected ==
    /\ (/\ ret.op = "load_config"
        /\ \/ ret.file.kind = "unparsable"
           \/ /\ ret.file.kind = "config"
              /\ ~(ValidationConfigFields \subseteq ret.file.members))
       => ~ret.ok
    /\ (/\ ret.op = "initialize_core"
        /\ \/ ret.file.kind = "unparsable"
           \/ /\ ret.file.kind = "license"
              /\ ~(CoreLicenseFields \subseteq ret.file.members))
       => (~ret.ok /\ ret.err = "ValueError")


\* every session of ConfigManager's store holds a record that passed
\* validate_configuration at the instant the session was started, under the
\* key equal to the record's customer_id
StoreValidated ==
    \A e \in config_manager.sessions :
        /\ e.key = e.val.config.customer_id
        /\ validate_configuration(config_manager, e.val.config,
                                  e.val.session_start)

\* C23: a session exists only as the result of a successful validation: the
\* sessions of ConfigManager's store hold validated records under their
\* customer_id, and SESSION comes to be present only by an initialize_core
\* that passed all its checks.
C23_SessionsOnlyFromValidation ==
    [][ /\ StoreValidated'
        /\ (~SESSION.some /\ SESSION'.some)
           => (ret'.op = "initialize_core" /\ ret'.ok) ]_vars

\* C23, the part that holds: the store of ConfigManager.
C23_StoreHoldsValidatedRecords == StoreValidated


\* C24: the expiration that gates access is anchor + 14 days.  License::new
\* and ValidationConfig::new give expires_at that value (and License::new an
\* issued_at not after it); for a record read from a file, is_valid and
\* days_remaining are the same whatever expires_at and issued_at the file
\* carries, is_valid is false from anchor + 14 days on, and days_remaining
\* counts down to that instant.  (get_available_features gates on
\* License::is_valid alone.)
C24_GateIsAnchorPlus14Days ==
    /\ probe.op = "License_new" =>
          /\ probe.license.expires_at = AnchorExpiration
          /\ probe.license.issued_at <= probe.license.expires_at
    /\ probe.op = "ValidationConfig_new" =>
          probe.config.expires_at = AnchorExpiration
    /\ probe.op = "ValidationConfig_gate" =>
          /\ \A e \in ExpiryChoices :
                is_valid([probe.config EXCEPT !.expires_at = e], probe.t)
                    = probe.is_valid
          /\ probe.is_valid => probe.t < AnchorExpiration
          /\ probe.days_remaining > 0 => probe.t < AnchorExpiration
    /\ probe.op = "License_gate" =>
          /\ \A e \in ExpiryChoices, i \in IssuedChoices :
                /\ License_is_valid([probe.license EXCEPT !.expires_at = e,
                                                          !.issued_at = i],
                                    probe.t) = probe.is_valid
                /\ License_days_remaining(
                       [probe.license EXCEPT !.expires_at = e,
                                             !.issued_at = i],
                       probe.t) = probe.days_remaining
          /\ probe.is_valid => probe.t < AnchorExpiration
          /\ probe.days_remaining > 0 => probe.t < AnchorExpiration

\* a rightly signed record whose file says anchor + 365 days is asked about
\* after anchor + 14 days and is not valid
C24_Witness ==
    /\ probe.op = "ValidationConfig_gate"
    /\ probe.config.expires_at = BUILD_TIMESTAMP + Days(365)
    /\ validate_security_signature(probe.config)
    /\ probe.t >= AnchorExpiration
    /\ ~probe.is_valid
    /\ probe.days_remaining = 0


\* the clock is inside the validity window
InsideWindow == BUILD_TIMESTAMP <= now /\ now < AnchorExpiration

\* C25: while the clock is inside the validity window, save_license accepts
\* a license made by generate_license and writes it where the path can be
\* written, load_license of such a license returns Ok and stores it under
\* its customer_id, and check_access for the customer of a stored license
\* and one of its features returns true.
C25_GeneratedLicenseIsUsable ==
    /\ (ret.op = "save_license" /\ InsideWindow /\ ret.write = "written") =>
          /\ ret.ok
          /\ output_file = to_string_pretty(ret.license)
    /\ ( /\ ret.op = "load_license"
         /\ ret.file.kind = "license"
         /\ ret.file.license =
               generate_license(ret.file.license.customer_id,
                                ret.file.license.features)
         /\ InsideWindow ) =>
          /\ ret.ok
          /\ get_license_info(license_manager, ret.file.license.customer_id)
                = Some(ret.file.license)

\* C25, what the code does: in ml_core save_license accepts no license and
\* writes no file, and no load_license returns Ok.
C25_NoLicenseIsSavedOrLoaded ==
    /\ crate = "ml_core" => output_file = NoFile
    /\ license_manager.licenses = {}
    /\ ret.op \in {"save_license", "load_license"} => ~ret.ok


\* C26: days_remaining is the number of whole days, rounded down, from the
\* clock reading to anchor + 14 days while the reading is before that
\* instant and 0 otherwise; it is never negative, at most 14 from the anchor
\* on, and does not grow as the clock advances; validate_configuration at
\* Enhanced and Maximum accepts a record only while a full day remains.
C26_DaysRemainingRoundsDown ==
    /\ probe.op = "days_remaining" =>
          /\ probe.at_later =
                IF probe.later < AnchorExpiration
                THEN (AnchorExpiration - probe.later) \div Days(1)
                ELSE 0
          /\ probe.at_later >= 0
          /\ BUILD_TIMESTAMP <= probe.later => probe.at_later <= 14
          /\ probe.at_later <= probe.at_earlier
    /\ (probe.op = "validate_configuration" /\ probe.accepted) =>
          probe.t + Days(1) <= AnchorExpiration

\* one second into the last day the count falls from 1 to 0
C26_Witness ==
    /\ probe.op = "days_remaining"
    /\ probe.earlier = BUILD_TIMESTAMP + Days(13)
    /\ probe.later = BUILD_TIMESTAMP + Days(13) + 1
    /\ probe.at_earlier = 1
    /\ probe.at_later = 0


\* `results` holds one result for each entry of `patterns` that occurs in
\* `text` and none for another, in the order of `patterns`
InRuleOrder(results, patterns, text) ==
    LET occurring == {j \in 1..Len(patterns) : contains(text, patterns[j])}
    IN  /\ Len(results) = Cardinality(occurring)
        /\ \E f \in [1..Len(results) -> occurring] :
              /\ \A i \in 1..Len(results), k \in 1..Len(results) :
                    i < k => f[i] < f[k]
              /\ \A i \in 1..Len(results) :
                    results[i].pattern = patterns[f[i]]

\* C27: extract_modules and extract_steps (apply_module_extraction and
\* apply_step_extraction in the protected core, the methods of
\* ExtractionEngine in the engine) return exactly one result for each pattern
\* of the category that occurs in the text, in the order of the rule set, and
\* none for a pattern that does not occur; with no patterns for the category
\* the result is empty.
C27_ResultsInRuleOrder ==
    probe.op \in {"apply_extraction", "ExtractionEngine_extract"} =>
        /\ InRuleOrder(probe.modules, probe.module_patterns, probe.text)
        /\ InRuleOrder(probe.steps, probe.step_patterns, probe.text)
        /\ probe.module_patterns = <<>> => probe.modules = <<>>
        /\ probe.step_patterns = <<>> => probe.steps = <<>>

\* the text has "Ch" before "Mod", the rules "Mod" before "Ch": the results
\* come in the order of the rules
C27_Witness ==
    /\ probe.op = "apply_extraction"
    /\ probe.text = <<"C", "h", "M", "o", "d">>
    /\ probe.module_patterns = << <<"M", "o", "d">>, <<"C", "h">> >>
    /\ Len(probe.modules) = 2
    /\ probe.modules[1].pattern = <<"M", "o", "d">>
    /\ probe.modules[2].pattern = <<"C", "h">>
    /\ probe.steps = <<>>

\* C28: ExtractionEngine::load_config is all-or-nothing.  When the bytes do
\* not parse it returns an error and leaves patterns, prompts and thresholds
\* as they were; when they parse, the three maps hold exactly the parsed
\* members, and get_prompt then returns the parsed prompt for a type the
\* bytes name and None for another.
C28_LoadConfigAllOrNothing ==
    /\ probe.op = "ExtractionEngine_load_config" =>
          IF probe.config_data.json = "object"
             /\ ExtractionEngineFields \subseteq
                    DOMAIN probe.config_data.members
          THEN /\ probe.ok
               /\ \A f \in ExtractionEngineFields :
                     /\ \A k \in DOMAIN probe.config_data.members[f] :
                           /\ MapHas(engine[f], k)
                           /\ MapGet(engine[f], k)
                                = probe.config_data.members[f][k]
                     /\ \A e \in engine[f] :
                           e.key \in DOMAIN probe.config_data.members[f]
          ELSE /\ ~probe.ok
               /\ engine = probe.before
    /\ probe.op = "ExtractionEngine_get_prompt" =>
          \A d \in EngineConfigData :
             (from_slice(d).ok /\ engine.prompts = from_slice(d).config.prompts)
             => probe.result =
                   IF probe.prompt_type \in DOMAIN d.members.prompts
                   THEN Some(d.members.prompts[probe.prompt_type])
                   ELSE None

\* a load that fails after one that passed leaves the maps of the first
C28_Witness ==
    /\ probe.op = "ExtractionEngine_load_config"
    /\ ~probe.ok
    /\ probe.before # ExtractionEngine_new
    /\ engine = probe.before
    /\ MapHas(engine.prompts, "outline")

\* after a load that passed, get_prompt of a type the bytes do not name
C28_ReplacedWitness ==
    /\ probe.op = "ExtractionEngine_load_config"
    /\ probe.ok
    /\ MapHas(probe.before.prompts, "outline")
    /\ ~MapHas(engine.prompts, "outline")


----------------------------------------------------------------------------

Next ==
    \/ Tick
    \/ ClockSetBack
    \/ \E f \in ConfigFiles : load_config(f)
    \/ \E id \in IDs, ft \in Features : validate_feature_call(id, ft)
    \/ \E f \in LicenseFiles \cup SavedFiles : load_license(f)
    \/ \E id \in IDs, fl \in FeatureLists :
            \E o \in WriteOutcomes :
                save_license(generate_license(id, fl), o)
    \/ \E id \in IDs, ft \in Features : check_access_call(id, ft)
    \/ \E id \in IDs : get_available_features_call(id)
    \/ \E f \in LegacyLicenseFiles \cup LegacySavedFiles :
            legacy_load_license(f)
    \/ \E l \in LegacySavedLicenses, o \in WriteOutcomes :
            legacy_save_license(l, o)
    \/ \E f \in LegacyConfigFiles : legacy_load_config(f)
    \/ \E id \in IDs, ft \in Features :
            legacy_validate_feature_call(id, ft)
    \/ \E id \in IDs, ft \in Features : legacy_validate_license_call(id, ft)
    \/ \E f \in CoreLicenseFiles : initialize_core(f)
    \/ \E text \in Texts : extract_modules_call(text)
    \/ \E text \in Texts : extract_steps_call(text)
    \/ \E prompt_type \in PromptTypes : get_llm_prompt_call(prompt_type)
    \/ \E config_path \in ConfigPaths : initialize_engine_call(config_path)
    \/ \E text \in Texts : extractor_extract_modules_call(text)
    \/ \E text \in Texts : extractor_extract_steps_call(text)
    \/ \E prompt_type \in PromptTypes : extractor_get_prompt_call(prompt_type)

Spec == Init /\ [][Next]_vars

\* the functions applied on their own, from the state after construction
InitFunctions ==
    /\ Init
    /\ crate = "ml_core"
    /\ now = BUILD_TIMESTAMP

NextFunctions ==
    \/ \E system \in ClockReadings, utc \in ClockReadings :
            detect_clock_manipulation_call(system, utc)
    \/ \E sealed_for \in IDs, pt \in Plaintexts, how \in Alterations,
          id \in IDs :
            decrypt_payload_call(sealed_for, pt, how, id)
    \/ \E id \in IDs, b \in BuildDates, first, second \in HasherCalls :
            generate_security_signature_call(id, b, first, second)
    \/ \E id \in IDs, fl \in FeatureLists : License_new_call(id, fl)
    \/ \E id \in IDs, fl \in FeatureLists : ValidationConfig_new_call(id, fl)
    \/ \E c \in ValidationConfigs, t \in Instants :
            ValidationConfig_gate_call(c, t)
    \/ \E l \in GateLicenses, t \in Instants : License_gate_call(l, t)
    \/ \E t1 \in DayReadings, t2 \in DayReadings : days_remaining_call(t1, t2)
    \/ \E level \in DayCountingLevels, c \in ValidationConfigs,
          t \in Instants :
            validate_configuration_call(level, c, t)
    \/ \E text \in Texts, rules \in RuleSets :
            apply_extraction_call(text, rules)
    \/ \E text \in Texts : ExtractionEngine_extract_call(text)
    \/ \E d \in EngineConfigData : ExtractionEngine_load_config_call(d)
    \/ \E pt \in EnginePromptTypes : ExtractionEngine_get_prompt_call(pt)

SpecFunctions == InitFunctions /\ [][NextFunctions]_vars

\* concurrent callers, from the state after construction
InitConcurrent ==
    /\ Init
    /\ crate \in {"ml_core", "codex_core"}
    /\ now = BUILD_TIMESTAMP

NextConcurrent ==
    \/ \E t \in Threads, f \in ConcurrentFiles : initialize_core_reset(t, f)
    \/ \E t \in Threads : initialize_core_verify(t)
    \/ \E t \in Threads : initialize_core_set_rules(t)
    \/ \E t \in Threads : initialize_core_set_customer_id(t)
    \/ \E t \in Threads : initialize_core_set_watermark(t)
    \/ \E t \in Threads, call \in ReaderCalls : reader_session_as_ref(t, call)
    \/ \E t \in Threads : reader_rules_as_ref(t)
    \/ \E t \in Threads : reader_apply(t)
    \/ \E t \in Threads : reader_add_watermark(t)
    \/ \E t \in Threads, id \in IDs, ft \in Features :
            check_access_read(t, id, ft)
    \/ \E t \in Threads : check_access_return(t)

SpecConcurrent == InitConcurrent /\ [][NextConcurrent]_vars

====
